---- MODULE Spec2Model ----
(***************************************************************************)
(* Watermark-driven hourly aggregation of SensorThings observations, as    *)
(* implemented by the two ingestion variants                               *)
(*   bd-loaders/loader-rudn/ingest_frost.py   (variant = "rudn")           *)
(*   bd-loaders/loader/ingest_frost.py        (variant = "loader")         *)
(* Time is counted in ticks; an hour is HourLen ticks.  Raw values are     *)
(* whole numbers; averages are exact rationals [n, d] in lowest terms.     *)
(* An optional value (Python None) is a sequence of length 0 or 1.         *)
(***************************************************************************)
EXTENDS Integers, Sequences, FiniteSets, TLC

\* ---------------------------------------------------------------- bounds
MaxT == 3
MaxObs == 3
HourLen == 2
MaxCycles == 2
MaxCrash == 1
MaxPts == 4
MaxCall == 3
MaxCalls == 2

\* ------------------------------------------------------ program constants
BATCH_SIZE == 2
LOADER_BATCH == 2
START_FROM_DT == 0
T_MIN == 0
T_MAX == 99
CACHE_LIMIT == 2
MD_WM_RANGE == 20
MD_ID_FACTOR == 100
DEC_RUDN == 3
DEC_LOADER == 2

None == <<>>
Some(x) == <<x>>
Variants == {"rudn", "loader"}

\* ------------------------------------------------------------- arithmetic
Max2(a, b) == IF a >= b THEN a ELSE b
Min2(a, b) == IF a <= b THEN a ELSE b
SetMax(S) == CHOOSE x \in S : \A y \in S : y <= x
Abs(x) == IF x < 0 THEN -x ELSE x

RECURSIVE GCD(_, _)
GCD(a, b) == IF b = 0 THEN a ELSE GCD(b, a % b)

RECURSIVE Pow10(_)
Pow10(k) == IF k = 0 THEN 1 ELSE 10 * Pow10(k - 1)

\* the rational n/d (n >= 0, d > 0) in lowest terms
Rat(n, d) == LET g == GCD(n, d) IN [n |-> n \div g, d |-> d \div g]

\* Python round(n/d, dec): nearest multiple of 10^-dec, ties to even
PyRound(n, d, dec) ==
    LET sc == Pow10(dec)
        q == (n * sc) \div d
        r == (n * sc) % d
        up == (2 * r > d) \/ (2 * r = d /\ q % 2 = 1)
    IN Rat(IF up THEN q + 1 ELSE q, sc)

\* (x * cx + y * cy) / (cx + cy) for rationals x, y and counts cx, cy
WeightedMean(x, cx, y, cy) ==
    Rat(x.n * cx * y.d + y.n * cy * x.d, x.d * y.d * (cx + cy))

floor_hour(dt) == dt - (dt % HourLen)

\* ------------------------------------------------------ location history
\* thing_location rows: [thing_id, location_id, start_time, end_time]
Containing(tl, thing_id, at_time) ==
    {r \in tl : r.thing_id = thing_id /\ r.start_time <= at_time /\ r.end_time > at_time}

\* SELECT ... LIMIT 1 of a row set (the rows of one Thing have distinct starts)
Limit1(rows) == CHOOSE r \in rows : \A q \in rows : r.start_time <= q.start_time

\* a mutation of resolve_location_id_rudn: the cache is never cleared
resolve_location_id_never_cleared(tl, thing_id, at_time, cache) ==
    LET key == <<thing_id, floor_hour(at_time)>>
        rows == Containing(tl, thing_id, at_time)
        loc_id == IF rows = {} THEN None ELSE Some(Limit1(rows).location_id)
    IN IF key \in DOMAIN cache
       THEN [loc |-> cache[key], cache |-> cache]
       ELSE [loc |-> loc_id,
             cache |-> [k \in DOMAIN cache \cup {key} |->
                           IF k = key THEN loc_id ELSE cache[k]]]

\* rudn: memoised strict lookup; result [loc, cache]
resolve_location_id_rudn(tl, thing_id, at_time, cache0) ==
    LET cache == IF Cardinality(DOMAIN cache0) > CACHE_LIMIT THEN <<>> ELSE cache0
        key == <<thing_id, floor_hour(at_time)>>
        rows == Containing(tl, thing_id, at_time)
        loc_id == IF rows = {} THEN None ELSE Some(Limit1(rows).location_id)
    IN IF key \in DOMAIN cache
       THEN [loc |-> cache[key], cache |-> cache]
       ELSE [loc |-> loc_id,
             cache |-> [k \in DOMAIN cache \cup {key} |->
                           IF k = key THEN loc_id ELSE cache[k]]]

\* loader: strict lookup, then the interval whose start is nearest in time
resolve_location_id_loader(tl, thing_id, at_hour) ==
    LET rows == Containing(tl, thing_id, at_hour)
        own == {r \in tl : r.thing_id = thing_id}
        near == CHOOSE r \in own : \A q \in own :
                    Abs(r.start_time - at_hour) <= Abs(q.start_time - at_hour)
    IN IF rows # {} THEN Some(Limit1(rows).location_id)
       ELSE IF own # {} THEN Some(near.location_id)
       ELSE None

\* ------------------------------------------------------------ watermarks
\* ingestion_state is a function datastream_id -> last_time on the ids with a row
get_watermark(state, ds_id, start_default) ==
    IF ds_id \in DOMAIN state THEN state[ds_id] ELSE start_default

set_watermark(state, ds_id, ts) ==
    [d \in DOMAIN state \cup {ds_id} |-> IF d = ds_id THEN ts ELSE state[d]]

\* ------------------------------------------------------ hourly buckets
\* points are records [ts, val, id]; id names the upstream observation and
\* is read by no operator of the program.
\* buckets: [ord: hours in insertion order, b: hour -> accumulator]
NoBuckets == [ord |-> <<>>, b |-> <<>>]

AddPoint(bk, p) ==
    LET h == floor_hour(p.ts)
        seen == h \in DOMAIN bk.b
        b == IF seen THEN bk.b[h]
             ELSE [sum |-> 0, min |-> p.val, max |-> p.val, cnt |-> 0, last_ts |-> p.ts]
        nb == [sum |-> b.sum + p.val,
               cnt |-> b.cnt + 1,
               min |-> Min2(b.min, p.val),
               max |-> Max2(b.max, p.val),
               last_ts |-> Max2(b.last_ts, p.ts)]
    IN [ord |-> IF seen THEN bk.ord ELSE Append(bk.ord, h),
        b |-> [x \in DOMAIN bk.b \cup {h} |-> IF x = h THEN nb ELSE bk.b[x]]]

RECURSIVE MakeBuckets(_, _)
MakeBuckets(points, bk) ==
    IF points = <<>> THEN bk ELSE MakeBuckets(Tail(points), AddPoint(bk, Head(points)))

\* a last_ts that is the earliest timestamp of the points: C6 does not hold
\* when the aggregator returns it
LastTsEarliest(points) ==
    IF points = <<>> THEN None
    ELSE Some(-SetMax({-points[i].ts : i \in 1..Len(points)}))

\* last_ts of the first loop: the latest timestamp of all the points
LastTs(points) ==
    IF points = <<>> THEN None
    ELSE Some(SetMax({points[i].ts : i \in 1..Len(points)}))

\* ------------------------------------------------------ fact-row upsert
\* observation_hour rows: [datastream_id, thing_id, location_id, hour,
\*   avg_val, min_val, max_val, cnt] and two history columns raw_sum, raw_cnt:
\* the sum and the number of the raw values folded into the row so far.
NewRow(ds_id, thing_id, loc_id, hour, avg_val, a) ==
    [datastream_id |-> ds_id, thing_id |-> thing_id, location_id |-> loc_id,
     hour |-> hour, avg_val |-> avg_val, min_val |-> a.min, max_val |-> a.max,
     cnt |-> a.cnt, raw_sum |-> a.sum, raw_cnt |-> a.cnt]

\* rudn: ON CONFLICT (datastream_id, location_id, hour) DO UPDATE SET ...
OnConflictRudn(old, ex) ==
    [old EXCEPT !.avg_val = WeightedMean(old.avg_val, old.cnt, ex.avg_val, ex.cnt),
                !.min_val = Min2(ex.min_val, old.min_val),
                !.max_val = Max2(ex.max_val, old.max_val),
                !.cnt = old.cnt + ex.cnt,
                !.raw_sum = old.raw_sum + ex.raw_sum,
                !.raw_cnt = old.raw_cnt + ex.raw_cnt]

\* a mutation of OnConflictLoader: the stored location_id is kept
OnConflictLoaderKeepLocation(old, ex) ==
    [old EXCEPT !.avg_val = ex.avg_val,
                !.min_val = Min2(ex.min_val, old.min_val),
                !.max_val = Max2(ex.max_val, old.max_val),
                !.cnt = old.cnt + ex.cnt,
                !.raw_sum = old.raw_sum + ex.raw_sum,
                !.raw_cnt = old.raw_cnt + ex.raw_cnt]

\* loader: ON CONFLICT (datastream_id, hour) DO UPDATE SET ...
OnConflictLoader(old, ex) ==
    [old EXCEPT !.location_id = ex.location_id,
                !.avg_val = ex.avg_val,
                !.min_val = Min2(ex.min_val, old.min_val),
                !.max_val = Max2(ex.max_val, old.max_val),
                !.cnt = old.cnt + ex.cnt,
                !.raw_sum = old.raw_sum + ex.raw_sum,
                !.raw_cnt = old.raw_cnt + ex.raw_cnt]

ConflictRudn(facts, ex) ==
    {r \in facts : r.datastream_id = ex.datastream_id
                   /\ r.location_id = ex.location_id /\ r.hour = ex.hour}

ConflictLoader(facts, ex) ==
    {r \in facts : r.datastream_id = ex.datastream_id /\ r.hour = ex.hour}

UpsertRudn(facts, ex) ==
    LET hit == ConflictRudn(facts, ex)
        old == CHOOSE r \in hit : TRUE
    IN IF hit = {} THEN facts \cup {ex}
       ELSE (facts \ {old}) \cup {OnConflictRudn(old, ex)}

UpsertLoader(facts, ex) ==
    LET hit == ConflictLoader(facts, ex)
        old == CHOOSE r \in hit : TRUE
    IN IF hit = {} THEN facts \cup {ex}
       ELSE (facts \ {old}) \cup {OnConflictLoader(old, ex)}

\* counter[k] = counter.get(k, 0) + 1
Bump(counter, k) ==
    [x \in DOMAIN counter \cup {k} |->
        IF x # k THEN counter[x]
        ELSE IF k \in DOMAIN counter THEN counter[k] + 1 ELSE 1]

\* ------------------------------------------- aggregate_and_upsert_hourly
\* second loop of the rudn aggregator over the buckets i..Len(ord);
\* acc = [facts, cache, skipped]
RECURSIVE WriteBucketsRudn(_, _, _, _, _, _)
WriteBucketsRudn(tl, ds_id, thing_id, bk, i, acc) ==
    IF i > Len(bk.ord) THEN acc
    ELSE LET hour == bk.ord[i]
             a == bk.b[hour]
             res == resolve_location_id_rudn(tl, thing_id, hour, acc.cache)
             avg_val == PyRound(a.sum, a.cnt, DEC_RUDN)
             ex == NewRow(ds_id, thing_id, res.loc[1], hour, avg_val, a)
         IN WriteBucketsRudn(tl, ds_id, thing_id, bk, i + 1,
               IF res.loc = None
               THEN [facts |-> acc.facts, cache |-> res.cache,
                     skipped |-> Bump(acc.skipped, thing_id)]
               ELSE [facts |-> UpsertRudn(acc.facts, ex), cache |-> res.cache,
                     skipped |-> acc.skipped])

\* result [facts, cache, skipped, last_ts]
aggregate_and_upsert_hourly_rudn(facts, tl, ds_id, thing_id, points, cache, skipped) ==
    LET bk == MakeBuckets(points, NoBuckets)
        out == WriteBucketsRudn(tl, ds_id, thing_id, bk, 1,
                   [facts |-> facts, cache |-> cache, skipped |-> skipped])
    IN [facts |-> out.facts, cache |-> out.cache, skipped |-> out.skipped,
        last_ts |-> LastTs(points)]

\* second loop of the loader aggregator; acc = [facts, skipped] with skipped
\* the local count of buckets without a location
RECURSIVE WriteBucketsLoader(_, _, _, _, _, _)
WriteBucketsLoader(tl, ds_id, thing_id, bk, i, acc) ==
    IF i > Len(bk.ord) THEN acc
    ELSE LET hour == bk.ord[i]
             a == bk.b[hour]
             loc == resolve_location_id_loader(tl, thing_id, hour)
             avg_val == PyRound(a.sum, a.cnt, DEC_LOADER)
             ex == NewRow(ds_id, thing_id, loc[1], hour, avg_val, a)
         IN WriteBucketsLoader(tl, ds_id, thing_id, bk, i + 1,
               IF loc = None
               THEN [facts |-> acc.facts, skipped |-> acc.skipped + 1]
               ELSE [facts |-> UpsertLoader(acc.facts, ex), skipped |-> acc.skipped])

\* result [facts, last_ts]
aggregate_and_upsert_hourly_loader(facts, tl, ds_id, thing_id, points) ==
    LET bk == MakeBuckets(points, NoBuckets)
        out == WriteBucketsLoader(tl, ds_id, thing_id, bk, 1,
                   [facts |-> facts, skipped |-> 0])
    IN [facts |-> out.facts, last_ts |-> LastTs(points)]


\* ------------------------------------------------------------------ state
VARIABLES
    variant,            \* which ingestion program runs
    upstream,           \* source -> observations served by the API, oldest first
    session,            \* the tables as the open connection sees them
    committed,          \* the tables as committed
    ALLOWED_THING_IDS,  \* module-level set filled by the catalog sync
    pc,                 \* "idle" between cycles, "ds" / "md" inside the two loops
    todo,               \* entities the running loop has still to visit
    st,                 \* locals of the loop body for the entity being read
    loc_cache,          \* loc_cache of the running ingest function
    skipped_counter,    \* skipped_counter of the running ingest function
    cycles,             \* history: the number of cycles started
    crashes,            \* history: the number of times the process was killed
    calls,              \* history: the point lists given to the aggregator
    ret,                \* value returned by the last direct call
    remote,             \* the Thing record the last catalog sync fetched
    fg,                 \* a running frost_get generator and the server it reads
    sched               \* run_schedule: position in the loop and in main()

vars == <<variant, upstream, session, committed, ALLOWED_THING_IDS, pc, todo, st,
          loc_cache, skipped_counter, cycles, crashes, calls, ret, remote, fg, sched>>

\* ----------------------------------------------------- the remote catalog
\* /Datastreams and /MultiDatastreams in the order the API lists them
NativeDs == <<[id |-> 1, thing |-> 1], [id |-> 101, thing |-> 2]>>
MultiDs == <<[id |-> 1, thing |-> 1, ncomp |-> 2]>>

DsSrc(id) == <<"Datastreams", id>>
MdSrc(id) == <<"MultiDatastreams", id>>
DsSources == {DsSrc(NativeDs[i].id) : i \in 1..Len(NativeDs)}
MdSources == {MdSrc(MultiDs[i].id) : i \in 1..Len(MultiDs)}
Sources == DsSources \cup MdSources
ObsIds == Sources \X (1..MaxObs)

\* a mutation of VdsId: every component goes to the datastream of component 0
VdsIdOfParent(md_id, idx) == md_id * MD_ID_FACTOR

\* vds_id = md_id * 100 + idx
VdsId(md_id, idx) == md_id * MD_ID_FACTOR + idx

\* rows of table datastream after the catalog sync of each variant
NativeRows == {[datastream_id |-> NativeDs[i].id, thing_id |-> NativeDs[i].thing] :
                 i \in 1..Len(NativeDs)}
VirtualRows == UNION {{[datastream_id |-> VdsId(MultiDs[i].id, idx),
                        thing_id |-> MultiDs[i].thing] : idx \in 0..(MultiDs[i].ncomp - 1)} :
                      i \in 1..Len(MultiDs)}

\* datastream_id is the key: the rows of the composite streams, written by the
\* later sync, replace the native rows of the same id
DatastreamRowsRudn ==
    VirtualRows \cup {r \in NativeRows :
                        \A v \in VirtualRows : v.datastream_id # r.datastream_id}

\* Thing 1 has been at Location 1 since tick HourLen; Thing 2 has no interval
InitThingLocation ==
    {[thing_id |-> 1, location_id |-> 1, start_time |-> HourLen, end_time |-> T_MAX]}

NoSt == [k |-> "none"]

\* the result of the observation a stream posts at tick ts: a number for a
\* native datastream, one number per component for a composite stream; the
\* readings of the sensors differ from tick to tick
Result(src, ts) ==
    IF src \in DsSources THEN Some(10 * ts)
    ELSE <<Some(10 * ts), Some(10 * ts + 5)>>

\* How an observation is written in the JSON of the API.  time_form: "iso" an
\* ISO-8601 instant, "interval" start/end with the instant as its end,
\* "missing" no phenomenonTime, "garbled" a text isoparse rejects.
\* result_form of a native datastream: "number" a JSON number, "decimal" the
\* number as text with a point, "comma" as text with a decimal comma, "word" a
\* text that is no number; of a composite stream: "list" or "scalar".
\* result = None is JSON null.

\* rudn: if not ts: raise; ts.split("/")[-1]; isoparse
parse_time_rudn(ob) ==
    IF ob.time_form \in {"iso", "interval"} THEN Some(ob.ts) ELSE None

\* loader: isoparse(ts)
parse_time_loader(ob) ==
    IF ob.time_form = "iso" THEN Some(ob.ts) ELSE None

\* a mutation of float_rudn: every text counts as a number
float_rudn_any(ob) == ob.result

\* rudn: float(str(val).replace(",", "."))
float_rudn(ob) ==
    IF ob.result # None /\ ob.result_form \in {"number", "decimal", "comma"}
    THEN ob.result ELSE None

\* loader: float(res)
float_loader(ob) ==
    IF ob.result # None /\ ob.result_form \in {"number", "decimal"}
    THEN ob.result ELSE None

Tables(v) ==
    [observation_hour |-> {},
     ingestion_state |-> <<>>,
     thing_location |-> InitThingLocation,
     datastream |-> IF v = "rudn" THEN DatastreamRowsRudn ELSE NativeRows,
     fed |-> [o \in ObsIds |-> 0],
     open |-> {}]

Init ==
    /\ variant \in Variants
    /\ upstream = [s \in Sources |-> <<>>]
    /\ session = Tables(variant)
    /\ committed = Tables(variant)
    /\ ALLOWED_THING_IDS = {1, 2}
    /\ pc = "idle"
    /\ todo = <<>>
    /\ st = NoSt
    /\ loc_cache = <<>>
    /\ skipped_counter = <<>>
    /\ cycles = 0
    /\ crashes = 0
    /\ calls = <<>>
    /\ ret = None
    /\ remote = None
    /\ fg = None
    /\ sched = None


\* ------------------------------------------------------------ the API
Total(up) ==
    LET RECURSIVE Sum(_)
        Sum(S) == IF S = {} THEN 0
                  ELSE LET x == CHOOSE y \in S : TRUE IN Len(up[x]) + Sum(S \ {x})
    IN Sum(DOMAIN up)

LastUpTs(up, src) == IF up[src] = <<>> THEN START_FROM_DT ELSE up[src][Len(up[src])].ts

\* GET <entity>/Observations?$orderby=phenomenonTime asc&$filter=phenomenonTime gt wm
\* (upstream[src] is kept in ascending time order by Arrive, and the
\* phenomenonTimes of a stream are distinct)
Fetch(up, src, wm) ==
    LET all == [i \in 1..Len(up[src]) |->
                   [ts |-> up[src][i].ts, result |-> up[src][i].result,
                    time_form |-> up[src][i].time_form,
                    result_form |-> up[src][i].result_form, id |-> <<src, i>>]]
    IN SelectSeq(all, LAMBDA o : o.ts > wm)

\* a sensor posts an observation, later than the newest one of its stream
\* (an observation posted after the last cycle is read by nothing)
Arrive ==
    /\ pc = "idle"
    /\ cycles < MaxCycles
    /\ Total(upstream) < MaxObs
    /\ \E src \in Sources, ts \in 1..MaxT :
         /\ ts > LastUpTs(upstream, src)
         /\ src \in MdSources => variant = "rudn"
         /\ upstream' = [upstream EXCEPT
                            ![src] = Append(@, [ts |-> ts, result |-> Result(src, ts),
                                                time_form |-> "iso",
                                                result_form |-> IF src \in DsSources
                                                                THEN "number" ELSE "list"])]
    /\ UNCHANGED <<remote, fg, sched, variant, session, committed, ALLOWED_THING_IDS, pc, todo, st,
                   loc_cache, skipped_counter, cycles, crashes, calls, ret>>

\* history: every observation among the points of a flush is merged once more
AddFed(fed, points) ==
    [o \in DOMAIN fed |->
        IF \E i \in 1..Len(points) : points[i].id = o THEN fed[o] + 1 ELSE fed[o]]

\* history columns of the tables: fed[o] counts the flushes that merged
\* observation o; open holds the observations merged by a batch flush in the
\* middle of a stream whose reading has not reached the lines after the loop
Ids(points) == {points[i].id : i \in 1..Len(points)}
OfSrc(ids, src) == {o \in ids : o[1] = src}

\* --------------------------------------------------------- cycle (main)
\* rows of ingest_observations: datastream rows with a Thing, by datastream_id
RECURSIVE SortedById(_)
SortedById(rows) ==
    IF rows = {} THEN <<>>
    ELSE LET r == CHOOSE x \in rows : \A y \in rows : x.datastream_id <= y.datastream_id
         IN <<[id |-> r.datastream_id, thing |-> r.thing_id]>> \o SortedById(rows \ {r})

\* main() up to the first observation loop; the catalog phases rewrite the
\* catalog tables with the rows they already hold
StartCycle ==
    /\ pc = "idle"
    /\ cycles < MaxCycles
    /\ cycles' = cycles + 1
    /\ pc' = "ds"
    /\ todo' = IF variant = "rudn" THEN NativeDs ELSE SortedById(session.datastream)
    /\ st' = NoSt
    /\ loc_cache' = <<>>
    /\ skipped_counter' = <<>>
    /\ UNCHANGED <<remote, fg, sched, variant, upstream, session, committed, ALLOWED_THING_IDS,
                   crashes, calls, ret>>

\* ------------------------------------- ingest_ds_observations (rudn)
\* if l and (last_ts is None or l > last_ts): last_ts = l
AdvanceLast(last_ts, l) ==
    IF l # None /\ (last_ts = None \/ l[1] > last_ts[1]) THEN l ELSE last_ts

\* a mutation of DsBeginRudn: the Thing of the datastream is not looked up in
\* ALLOWED_THING_IDS
DsBeginRudnUnfiltered ==
    /\ variant = "rudn" /\ pc = "ds" /\ st.k = "none" /\ todo # <<>>
    /\ LET ds == Head(todo)
           wm == get_watermark(session.ingestion_state, ds.id, START_FROM_DT)
       IN /\ todo' = todo
          /\ st' = [k |-> "ds", ds_id |-> ds.id, thing_id |-> ds.thing,
                    src |-> DsSrc(ds.id), wm |-> wm,
                    stream |-> Fetch(upstream, DsSrc(ds.id), wm),
                    buffer |-> <<>>, last_ts |-> None,
                    seen |-> {}, redo |-> OfSrc(committed.open, DsSrc(ds.id))]
    /\ UNCHANGED <<remote, fg, sched, variant, upstream, session, committed, ALLOWED_THING_IDS, pc,
                   loc_cache, skipped_counter, cycles, crashes, calls, ret>>

DsBeginRudn ==
    /\ variant = "rudn" /\ pc = "ds" /\ st.k = "none" /\ todo # <<>>
    /\ LET ds == Head(todo)
           wm == get_watermark(session.ingestion_state, ds.id, START_FROM_DT)
       IN IF ds.thing \notin ALLOWED_THING_IDS
          THEN todo' = Tail(todo) /\ st' = st
          ELSE /\ todo' = todo
               /\ st' = [k |-> "ds", ds_id |-> ds.id, thing_id |-> ds.thing,
                         src |-> DsSrc(ds.id), wm |-> wm,
                         stream |-> Fetch(upstream, DsSrc(ds.id), wm),
                         buffer |-> <<>>, last_ts |-> None,
                         seen |-> {}, redo |-> OfSrc(committed.open, DsSrc(ds.id))]
    /\ UNCHANGED <<remote, fg, sched, variant, upstream, session, committed, ALLOWED_THING_IDS, pc,
                   loc_cache, skipped_counter, cycles, crashes, calls, ret>>

\* a batch flush that writes the watermark in the transaction of the batch:
\* with it the points of a committed batch are not fetched again, and C7 does
\* not hold
DsReadRudnWithWatermark ==
    /\ variant = "rudn" /\ pc = "ds" /\ st.k = "ds" /\ st.stream # <<>>
    /\ LET ob == Head(st.stream)
           dt == parse_time_rudn(ob)
           fv == float_rudn(ob)
           ok == dt # None /\ fv # None
           buffer == IF ok THEN Append(st.buffer, [ts |-> dt[1], val |-> fv[1],
                                                   id |-> ob.id])
                     ELSE st.buffer
           full == ok /\ Len(buffer) >= BATCH_SIZE
           r == aggregate_and_upsert_hourly_rudn(session.observation_hour,
                    session.thing_location, st.ds_id, st.thing_id, buffer,
                    loc_cache, skipped_counter)
           seen == IF ok THEN st.seen \cup {ob.ts} ELSE st.seen
       IN IF full
          THEN /\ session' = [session EXCEPT
                                 !.observation_hour = r.facts,
                                 !.fed = AddFed(@, buffer),
                                 !.open = @ \cup Ids(buffer),
                                 !.ingestion_state =
                                     set_watermark(@, st.ds_id, r.last_ts[1])]
               /\ committed' = session'
               /\ loc_cache' = r.cache
               /\ skipped_counter' = r.skipped
               /\ st' = [st EXCEPT !.stream = Tail(@), !.buffer = <<>>,
                                   !.last_ts = AdvanceLast(@, r.last_ts),
                                   !.seen = seen]
          ELSE /\ st' = [st EXCEPT !.stream = Tail(@), !.buffer = buffer, !.seen = seen]
               /\ UNCHANGED <<session, committed, loc_cache, skipped_counter>>
    /\ UNCHANGED <<remote, fg, sched, variant, upstream, ALLOWED_THING_IDS, pc, todo, cycles, crashes, calls, ret>>

\* one turn of "for ob in frost_get(url_obs)": parse, buffer, flush a full batch
DsReadRudn ==
    /\ variant = "rudn" /\ pc = "ds" /\ st.k = "ds" /\ st.stream # <<>>
    /\ LET ob == Head(st.stream)
           dt == parse_time_rudn(ob)
           fv == float_rudn(ob)
           ok == dt # None /\ fv # None
           buffer == IF ok THEN Append(st.buffer, [ts |-> dt[1], val |-> fv[1],
                                                   id |-> ob.id])
                     ELSE st.buffer
           full == ok /\ Len(buffer) >= BATCH_SIZE
           r == aggregate_and_upsert_hourly_rudn(session.observation_hour,
                    session.thing_location, st.ds_id, st.thing_id, buffer,
                    loc_cache, skipped_counter)
           seen == IF ok THEN st.seen \cup {ob.ts} ELSE st.seen
       IN IF full
          THEN /\ session' = [session EXCEPT !.observation_hour = r.facts,
                                             !.fed = AddFed(@, buffer),
                                             !.open = @ \cup Ids(buffer)]
               /\ committed' = session'
               /\ loc_cache' = r.cache
               /\ skipped_counter' = r.skipped
               /\ st' = [st EXCEPT !.stream = Tail(@), !.buffer = <<>>,
                                   !.last_ts = AdvanceLast(@, r.last_ts),
                                   !.seen = seen]
          ELSE /\ st' = [st EXCEPT !.stream = Tail(@), !.buffer = buffer, !.seen = seen]
               /\ UNCHANGED <<session, committed, loc_cache, skipped_counter>>
    /\ UNCHANGED <<remote, fg, sched, variant, upstream, ALLOWED_THING_IDS, pc, todo, cycles, crashes, calls, ret>>

\* lines after the try block: flush the rest, set the watermark, commit
DsFinishRudn(buffer) ==
    LET r == aggregate_and_upsert_hourly_rudn(session.observation_hour,
                 session.thing_location, st.ds_id, st.thing_id, buffer,
                 loc_cache, skipped_counter)
        last_ts == IF buffer # <<>> THEN AdvanceLast(st.last_ts, r.last_ts) ELSE st.last_ts
    IN /\ session' = [session EXCEPT
                         !.observation_hour = IF buffer # <<>> THEN r.facts ELSE @,
                         !.fed = AddFed(@, buffer),
                         !.open = @ \ OfSrc(@, st.src),
                         !.ingestion_state = IF last_ts # None
                                             THEN set_watermark(@, st.ds_id, last_ts[1])
                                             ELSE @]
       /\ committed' = session'
       /\ loc_cache' = IF buffer # <<>> THEN r.cache ELSE loc_cache
       /\ skipped_counter' = IF buffer # <<>> THEN r.skipped ELSE skipped_counter
       /\ st' = NoSt
       /\ todo' = Tail(todo)

\* the observation stream ended
DsEndRudn ==
    /\ variant = "rudn" /\ pc = "ds" /\ st.k = "ds" /\ st.stream = <<>>
    /\ DsFinishRudn(st.buffer)
    /\ UNCHANGED <<remote, fg, sched, variant, upstream, ALLOWED_THING_IDS, pc, cycles, crashes, calls, ret>>

\* a page request of the observation stream used up its retries:
\* except RuntimeError: buffer.clear()
DsFetchFailRudn ==
    /\ variant = "rudn" /\ pc = "ds" /\ st.k = "ds" /\ st.stream # <<>>
    /\ DsFinishRudn(<<>>)
    /\ UNCHANGED <<remote, fg, sched, variant, upstream, ALLOWED_THING_IDS, pc, cycles, crashes, calls, ret>>


\* ----------------------------------------- ingest_observations (loader)
DS_INCLUDE == {}
DS_EXCLUDE == {}

\* if last_ts and last_ts > latest: latest = last_ts
AdvanceLatest(latest, l) ==
    IF l # None /\ l[1] > latest THEN l[1] ELSE latest

DsBeginLoader ==
    /\ variant = "loader" /\ pc = "ds" /\ st.k = "none" /\ todo # <<>>
    /\ LET ds == Head(todo)
           wm == get_watermark(session.ingestion_state, ds.id, START_FROM_DT)
       IN IF \/ (DS_INCLUDE # {} /\ ds.id \notin DS_INCLUDE)
             \/ (DS_EXCLUDE # {} /\ ds.id \in DS_EXCLUDE)
          THEN todo' = Tail(todo) /\ st' = st
          ELSE /\ todo' = todo
               /\ st' = [k |-> "ds", ds_id |-> ds.id, thing_id |-> ds.thing,
                         src |-> DsSrc(ds.id), wm |-> wm,
                         stream |-> Fetch(upstream, DsSrc(ds.id), wm),
                         batch |-> <<>>, latest |-> wm,
                         seen |-> {}, redo |-> OfSrc(committed.open, DsSrc(ds.id))]
    /\ UNCHANGED <<remote, fg, sched, variant, upstream, session, committed, ALLOWED_THING_IDS, pc,
                   loc_cache, skipped_counter, cycles, crashes, calls, ret>>

\* a mutation of DsReadLoader: conn.commit() after every flushed batch
DsReadLoaderCommitting ==
    /\ variant = "loader" /\ pc = "ds" /\ st.k = "ds" /\ st.stream # <<>>
    /\ LET ob == Head(st.stream)
           ts == parse_time_loader(ob)
           val == float_loader(ob)
           ok == ts # None /\ val # None
           batch == IF ok THEN Append(st.batch, [ts |-> ts[1], val |-> val[1],
                                                 id |-> ob.id])
                    ELSE st.batch
           full == ok /\ Len(batch) >= LOADER_BATCH
           r == aggregate_and_upsert_hourly_loader(session.observation_hour,
                    session.thing_location, st.ds_id, st.thing_id, batch)
           seen == IF ok THEN st.seen \cup {ob.ts} ELSE st.seen
       IN IF full
          THEN /\ session' = [session EXCEPT !.observation_hour = r.facts,
                                             !.fed = AddFed(@, batch),
                                             !.open = @ \cup Ids(batch)]
               /\ st' = [st EXCEPT !.stream = Tail(@), !.batch = <<>>,
                                   !.latest = AdvanceLatest(@, r.last_ts),
                                   !.seen = seen]
               /\ committed' = session'
          ELSE /\ st' = [st EXCEPT !.stream = Tail(@), !.batch = batch, !.seen = seen]
               /\ UNCHANGED <<session, committed>>
    /\ UNCHANGED <<remote, fg, sched, variant, upstream, ALLOWED_THING_IDS, pc, todo,
                   loc_cache, skipped_counter, cycles, crashes, calls, ret>>

\* one turn of "for obs in frost_get(url)": a full batch is aggregated, not committed
DsReadLoader ==
    /\ variant = "loader" /\ pc = "ds" /\ st.k = "ds" /\ st.stream # <<>>
    /\ LET ob == Head(st.stream)
           ts == parse_time_loader(ob)
           val == float_loader(ob)
           ok == ts # None /\ val # None
           batch == IF ok THEN Append(st.batch, [ts |-> ts[1], val |-> val[1],
                                                 id |-> ob.id])
                    ELSE st.batch
           full == ok /\ Len(batch) >= LOADER_BATCH
           r == aggregate_and_upsert_hourly_loader(session.observation_hour,
                    session.thing_location, st.ds_id, st.thing_id, batch)
           seen == IF ok THEN st.seen \cup {ob.ts} ELSE st.seen
       IN IF full
          THEN /\ session' = [session EXCEPT !.observation_hour = r.facts,
                                             !.fed = AddFed(@, batch),
                                             !.open = @ \cup Ids(batch)]
               /\ st' = [st EXCEPT !.stream = Tail(@), !.batch = <<>>,
                                   !.latest = AdvanceLatest(@, r.last_ts),
                                   !.seen = seen]
          ELSE /\ st' = [st EXCEPT !.stream = Tail(@), !.batch = batch, !.seen = seen]
               /\ UNCHANGED session
    /\ UNCHANGED <<remote, fg, sched, variant, upstream, committed, ALLOWED_THING_IDS, pc, todo,
                   loc_cache, skipped_counter, cycles, crashes, calls, ret>>

\* the observation stream ended: flush the rest, set the watermark, commit
DsEndLoader ==
    /\ variant = "loader" /\ pc = "ds" /\ st.k = "ds" /\ st.stream = <<>>
    /\ LET r == aggregate_and_upsert_hourly_loader(session.observation_hour,
                    session.thing_location, st.ds_id, st.thing_id, st.batch)
           latest == IF st.batch # <<>> THEN AdvanceLatest(st.latest, r.last_ts)
                     ELSE st.latest
       IN /\ session' = [session EXCEPT
                            !.observation_hour = IF st.batch # <<>> THEN r.facts ELSE @,
                            !.fed = AddFed(@, st.batch),
                            !.open = @ \ OfSrc(@, st.src),
                            !.ingestion_state = IF latest > st.wm
                                                THEN set_watermark(@, st.ds_id, latest)
                                                ELSE @]
          /\ committed' = session'
    /\ st' = NoSt
    /\ todo' = Tail(todo)
    /\ UNCHANGED <<remote, fg, sched, variant, upstream, ALLOWED_THING_IDS, pc, loc_cache,
                   skipped_counter, cycles, crashes, calls, ret>>

\* a page request used up its retries: the RuntimeError leaves ingest_observations
\* and main, whose finally closes the connection; run_schedule logs it
DsFetchFailLoader ==
    /\ variant = "loader" /\ pc = "ds" /\ st.k = "ds" /\ st.stream # <<>>
    /\ session' = committed
    /\ pc' = "idle"
    /\ st' = NoSt
    /\ todo' = <<>>
    /\ UNCHANGED <<remote, fg, sched, variant, upstream, committed, ALLOWED_THING_IDS, loc_cache,
                   skipped_counter, cycles, crashes, calls, ret>>

\* the loop over the datastreams ended
DsPhaseEnd ==
    /\ pc = "ds" /\ st.k = "none" /\ todo = <<>>
    /\ IF variant = "rudn"
       THEN pc' = "md" /\ todo' = MultiDs /\ session' = session
       ELSE pc' = "idle" /\ todo' = <<>> /\ session' = committed
    /\ loc_cache' = <<>>
    /\ skipped_counter' = <<>>
    /\ UNCHANGED <<remote, fg, sched, variant, upstream, committed, ALLOWED_THING_IDS, st, cycles, crashes,
                   calls, ret>>

\* ------------------------------------- ingest_md_observations (rudn)
\* buffers: [ord: component indexes in insertion order, b: idx -> points]
NoBuffers == [ord |-> <<>>, b |-> <<>>]

\* the loop "for idx, raw in enumerate(res)" from component i (idx = i - 1) on
RECURSIVE Route(_, _, _, _)
Route(buffers, ob, res, i) ==
    IF i > Len(res) THEN buffers
    ELSE LET idx == i - 1
             pt == [ts |-> ob.ts, val |-> res[i][1], id |-> ob.id]
             had == idx \in DOMAIN buffers.b
         IN Route(IF res[i] = None THEN buffers
                  ELSE [ord |-> IF had THEN buffers.ord ELSE Append(buffers.ord, idx),
                        b |-> [x \in DOMAIN buffers.b \cup {idx} |->
                                  IF x = idx
                                  THEN Append(IF had THEN buffers.b[idx] ELSE <<>>, pt)
                                  ELSE buffers.b[x]]],
                  ob, res, i + 1)

\* the buffered points of all components
RECURSIVE AllPoints(_)
AllPoints(buffers) ==
    IF buffers.ord = <<>> THEN <<>>
    ELSE buffers.b[Head(buffers.ord)]
            \o AllPoints([ord |-> Tail(buffers.ord), b |-> buffers.b])

\* flush_buffers() over the buffers in insertion order;
\* acc = [facts, cache, skipped, latest_ts]
RECURSIVE flush_buffers(_, _, _, _, _)
flush_buffers(tl, md_id, thing_id, buffers, acc) ==
    IF buffers.ord = <<>> THEN acc
    ELSE LET idx == Head(buffers.ord)
             arr == buffers.b[idx]
             r == aggregate_and_upsert_hourly_rudn(acc.facts, tl, VdsId(md_id, idx),
                      thing_id, arr, acc.cache, acc.skipped)
             rest == [ord |-> Tail(buffers.ord), b |-> buffers.b]
         IN flush_buffers(tl, md_id, thing_id, rest,
               IF arr = <<>> THEN acc
               ELSE [facts |-> r.facts, cache |-> r.cache, skipped |-> r.skipped,
                     latest_ts |-> AdvanceLast(acc.latest_ts, r.last_ts)])

\* frost_probe_count(url_obs): the number of observations of the stream
frost_probe_count(up, src) == Len(up[src])

MdBegin ==
    /\ variant = "rudn" /\ pc = "md" /\ st.k = "none" /\ todo # <<>>
    /\ LET md == Head(todo)
           start_wm == get_watermark(session.ingestion_state, VdsId(md.id, 0),
                                     START_FROM_DT)
       IN IF \/ md.thing \notin ALLOWED_THING_IDS
             \/ frost_probe_count(upstream, MdSrc(md.id)) = 0
          THEN todo' = Tail(todo) /\ st' = st
          ELSE /\ todo' = todo
               /\ st' = [k |-> "md", md_id |-> md.id, thing_id |-> md.thing,
                         src |-> MdSrc(md.id), wm |-> start_wm,
                         stream |-> Fetch(upstream, MdSrc(md.id), start_wm),
                         buffers |-> NoBuffers, latest_ts |-> None, count |-> 0,
                         seen |-> {}, redo |-> OfSrc(committed.open, MdSrc(md.id))]
    /\ UNCHANGED <<remote, fg, sched, variant, upstream, session, committed, ALLOWED_THING_IDS, pc,
                   loc_cache, skipped_counter, cycles, crashes, calls, ret>>

\* one turn of "for ob in frost_get(url_obs)"
MdRead ==
    /\ variant = "rudn" /\ pc = "md" /\ st.k = "md" /\ st.stream # <<>>
    /\ LET ob == Head(st.stream)
           dt == parse_time_rudn(ob)
           skip == ob.time_form = "missing" \/ ob.result = None
                   \/ ob.result_form # "list" \/ dt = None
           latest_ts == AdvanceLast(st.latest_ts, dt)
           buffers == Route(st.buffers, [ob EXCEPT !.ts = dt[1]], ob.result, 1)
           count == st.count + 1
           f == flush_buffers(session.thing_location, st.md_id, st.thing_id, buffers,
                    [facts |-> session.observation_hour, cache |-> loc_cache,
                     skipped |-> skipped_counter, latest_ts |-> latest_ts])
       IN IF skip
          THEN /\ st' = [st EXCEPT !.stream = Tail(@)]
               /\ UNCHANGED <<session, committed, loc_cache, skipped_counter>>
          ELSE IF count >= BATCH_SIZE
          THEN /\ session' = [session EXCEPT !.observation_hour = f.facts,
                                             !.fed = AddFed(@, AllPoints(buffers)),
                                             !.open = @ \cup Ids(AllPoints(buffers))]
               /\ committed' = session'
               /\ loc_cache' = f.cache
               /\ skipped_counter' = f.skipped
               /\ st' = [st EXCEPT !.stream = Tail(@), !.buffers = NoBuffers,
                                   !.latest_ts = f.latest_ts, !.count = 0,
                                   !.seen = @ \cup {ob.ts}]
          ELSE /\ st' = [st EXCEPT !.stream = Tail(@), !.buffers = buffers,
                                   !.latest_ts = latest_ts, !.count = count,
                                   !.seen = @ \cup {ob.ts}]
               /\ UNCHANGED <<session, committed, loc_cache, skipped_counter>>
    /\ UNCHANGED <<remote, fg, sched, variant, upstream, ALLOWED_THING_IDS, pc, todo, cycles, crashes, calls, ret>>

\* for idx in range(20): set the watermark of every datastream row md_id*100+idx
RECURSIVE SetMdWatermarks(_, _, _, _, _)
SetMdWatermarks(state, rows, md_id, ts, idx) ==
    IF idx >= MD_WM_RANGE THEN state
    ELSE SetMdWatermarks(
             IF \E r \in rows : r.datastream_id = VdsId(md_id, idx)
             THEN set_watermark(state, VdsId(md_id, idx), ts) ELSE state,
             rows, md_id, ts, idx + 1)

\* lines after the try block: flush, set the watermarks, commit
MdFinish ==
    LET f == flush_buffers(session.thing_location, st.md_id, st.thing_id, st.buffers,
                 [facts |-> session.observation_hour, cache |-> loc_cache,
                  skipped |-> skipped_counter, latest_ts |-> st.latest_ts])
    IN /\ session' = [session EXCEPT
                         !.observation_hour = f.facts,
                         !.fed = AddFed(@, AllPoints(st.buffers)),
                         !.open = @ \ OfSrc(@, st.src),
                         !.ingestion_state =
                             IF f.latest_ts # None
                             THEN SetMdWatermarks(@, session.datastream, st.md_id,
                                                  f.latest_ts[1], 0)
                             ELSE @]
       /\ committed' = session'
       /\ loc_cache' = f.cache
       /\ skipped_counter' = f.skipped
       /\ st' = NoSt
       /\ todo' = Tail(todo)

MdEnd ==
    /\ variant = "rudn" /\ pc = "md" /\ st.k = "md" /\ st.stream = <<>>
    /\ MdFinish
    /\ UNCHANGED <<remote, fg, sched, variant, upstream, ALLOWED_THING_IDS, pc, cycles, crashes, calls, ret>>

\* a page request used up its retries: except RuntimeError: pass
MdFetchFail ==
    /\ variant = "rudn" /\ pc = "md" /\ st.k = "md" /\ st.stream # <<>>
    /\ MdFinish
    /\ UNCHANGED <<remote, fg, sched, variant, upstream, ALLOWED_THING_IDS, pc, cycles, crashes, calls, ret>>

\* the loop over the composite streams ended: main returns
MdPhaseEnd ==
    /\ variant = "rudn" /\ pc = "md" /\ st.k = "none" /\ todo = <<>>
    /\ pc' = "idle"
    /\ loc_cache' = <<>>
    /\ skipped_counter' = <<>>
    /\ UNCHANGED <<remote, fg, sched, variant, upstream, session, committed, ALLOWED_THING_IDS, todo,
                   st, cycles, crashes, calls, ret>>

\* the process is killed inside a cycle: what was not committed is lost
Crash ==
    /\ pc # "idle"
    /\ crashes < MaxCrash
    /\ session' = committed
    /\ pc' = "idle"
    /\ todo' = <<>>
    /\ st' = NoSt
    /\ loc_cache' = <<>>
    /\ skipped_counter' = <<>>
    /\ crashes' = crashes + 1
    /\ UNCHANGED <<remote, fg, sched, variant, upstream, committed, ALLOWED_THING_IDS, cycles, calls, ret>>

Next ==
    \/ Arrive
    \/ StartCycle
    \/ DsBeginRudn
    \/ DsReadRudn
    \/ DsEndRudn
    \/ DsFetchFailRudn
    \/ DsBeginLoader
    \/ DsReadLoader
    \/ DsEndLoader
    \/ DsFetchFailLoader
    \/ DsPhaseEnd
    \/ MdBegin
    \/ MdRead
    \/ MdEnd
    \/ MdFetchFail
    \/ MdPhaseEnd
    \/ Crash

Spec == Init /\ [][Next]_vars


\* ------------------------------------ the aggregator called on its own
\* Direct calls aggregate_and_upsert_hourly(cur, ds_id, thing_id, points) on the
\* tables of Init, for one datastream and one Thing; calls lists the point
\* lists given so far and ret is the value the last call returned.
\* The values are multiples of 30: the mean of up to four of them has at most
\* two decimals, so PyRound returns it unchanged and a row that differs from
\* the merge rule differs because of the upsert.
AggVals == {0, 30, 60, 90}
AggTs == {1, HourLen, HourLen + 1}
AggPoints == {[ts |-> t, val |-> v, id |-> <<>>] : t \in AggTs, v \in AggVals}
AggLists == UNION {[1..n -> AggPoints] : n \in 0..MaxCall}

RECURSIVE Flatten(_)
Flatten(ss) == IF ss = <<>> THEN <<>> ELSE Head(ss) \o Flatten(Tail(ss))

InitAgg ==
    /\ variant \in Variants
    /\ upstream = [s \in Sources |-> <<>>]
    /\ session = Tables(variant)
    /\ committed = Tables(variant)
    /\ ALLOWED_THING_IDS = {1, 2}
    /\ pc = "agg"
    /\ todo = <<>>
    /\ st \in {[k |-> "agg", ds_id |-> 1, thing_id |-> t] : t \in {1, 2}}
    /\ loc_cache = <<>>
    /\ skipped_counter = <<>>
    /\ cycles = 0
    /\ crashes = 0
    /\ calls = <<>>
    /\ ret = None
    /\ remote = None
    /\ fg = None
    /\ sched = None

AggCallRudn ==
    /\ pc = "agg" /\ variant = "rudn"
    /\ Len(calls) < MaxCalls
    /\ \E points \in AggLists :
         /\ Len(Flatten(calls)) + Len(points) <= MaxPts
         /\ LET r == aggregate_and_upsert_hourly_rudn(session.observation_hour,
                         session.thing_location, st.ds_id, st.thing_id, points,
                         loc_cache, skipped_counter)
            IN /\ session' = [session EXCEPT !.observation_hour = r.facts]
               /\ loc_cache' = r.cache
               /\ skipped_counter' = r.skipped
               /\ ret' = r.last_ts
         /\ calls' = Append(calls, points)
    /\ UNCHANGED <<remote, fg, sched, variant, upstream, committed, ALLOWED_THING_IDS, pc, todo, st,
                   cycles, crashes>>

AggCallLoader ==
    /\ pc = "agg" /\ variant = "loader"
    /\ Len(calls) < MaxCalls
    /\ \E points \in AggLists :
         /\ Len(Flatten(calls)) + Len(points) <= MaxPts
         /\ LET r == aggregate_and_upsert_hourly_loader(session.observation_hour,
                         session.thing_location, st.ds_id, st.thing_id, points)
            IN /\ session' = [session EXCEPT !.observation_hour = r.facts]
               /\ ret' = r.last_ts
         /\ calls' = Append(calls, points)
    /\ UNCHANGED <<remote, fg, sched, variant, upstream, committed, ALLOWED_THING_IDS, pc, todo, st,
                   loc_cache, skipped_counter, cycles, crashes>>

NextAgg == AggCallRudn \/ AggCallLoader

SpecAgg == InitAgg /\ [][NextAgg]_vars


\* ================================================================ claims

\* C1: the persisted watermark of a datastream never decreases: every step
\* that stores a watermark for ds stores a value greater than or equal to the
\* value stored for ds before, and no watermark row disappears.
C1_WatermarkNeverDecreases ==
    [][\A d \in DOMAIN committed.ingestion_state :
          /\ d \in DOMAIN committed'.ingestion_state
          /\ committed'.ingestion_state[d] >= committed.ingestion_state[d]]_vars


\* C2: after completed cycles without a crash every committed fact row has
\* cnt equal to the number of raw observations folded into it and avg_val equal
\* to their unweighted mean.
C2_RowIsCountAndMean ==
    (pc = "idle" /\ crashes = 0) =>
        \A r \in committed.observation_hour :
            /\ r.cnt = r.raw_cnt
            /\ r.avg_val = Rat(r.raw_sum, r.raw_cnt)

\* C3: without a crash no raw observation is merged by more than one
\* committed flush.
C3_NoObservationAggregatedTwice ==
    crashes = 0 => \A o \in ObsIds : committed.fed[o] <= 1


\* ---- the direct aggregator calls (SpecAgg)
LastCall == calls[Len(calls)]
HoursOf(points) == {floor_hour(points[i].ts) : i \in 1..Len(points)}
InHour(points, h) == {i \in 1..Len(points) : floor_hour(points[i].ts) = h}
RECURSIVE SumVals(_, _)
SumVals(points, I) ==
    IF I = {} THEN 0
    ELSE LET i == CHOOSE j \in I : TRUE IN points[i].val + SumVals(points, I \ {i})
SetMin(S) == CHOOSE x \in S : \A y \in S : x <= y

\* the location the running variant resolves for the Thing of the calls at hour h
LocAt(h) ==
    IF variant = "rudn"
    THEN resolve_location_id_rudn(session.thing_location, st.thing_id, h, <<>>).loc
    ELSE resolve_location_id_loader(session.thing_location, st.thing_id, h)

\* the rows of table facts under the key of the fact table for (ds, loc, h)
KeyRows(facts, ds_id, loc_id, h) ==
    {r \in facts : /\ r.datastream_id = ds_id
                   /\ r.hour = h
                   /\ (variant = "rudn" => r.location_id = loc_id)}

\* C4: a direct call upserts every bucket with a location by the merge rule:
\* a new row is (mean, min, max, count) of the bucket; an existing row gets
\* avg = (old.avg*old.cnt + mean*count)/(old.cnt+count), min and max merged,
\* cnt = old.cnt + count.
C4_MergeRule ==
    [][Len(calls') = Len(calls) + 1 =>
         LET pts == calls'[Len(calls')] IN
         \A h \in HoursOf(pts) :
            LocAt(h) # None =>
               LET I == InHour(pts, h)
                   n == Cardinality(I)
                   mean == Rat(SumVals(pts, I), n)
                   mn == SetMin({pts[i].val : i \in I})
                   mx == SetMax({pts[i].val : i \in I})
                   old == KeyRows(session.observation_hour, st.ds_id, LocAt(h)[1], h)
                   new == KeyRows(session'.observation_hour, st.ds_id, LocAt(h)[1], h)
               IN /\ Cardinality(new) = 1
                  /\ \A r \in new :
                       IF old = {}
                       THEN /\ r.avg_val = mean /\ r.cnt = n
                            /\ r.min_val = mn /\ r.max_val = mx
                       ELSE \A o \in old :
                            /\ r.avg_val = WeightedMean(o.avg_val, o.cnt, mean, n)
                            /\ r.cnt = o.cnt + n
                            /\ r.min_val = Min2(o.min_val, mn)
                            /\ r.max_val = Max2(o.max_val, mx)]_vars

\* (hour, location, avg, min, max, cnt) of the rows of a fact table
Stats(facts) ==
    {[hour |-> r.hour, location_id |-> r.location_id, avg_val |-> r.avg_val,
      min_val |-> r.min_val, max_val |-> r.max_val, cnt |-> r.cnt] : r \in facts}

\* the fact table one call with all the points leaves, starting from no rows
OneCall(points) ==
    IF variant = "rudn"
    THEN aggregate_and_upsert_hourly_rudn({}, session.thing_location, st.ds_id,
             st.thing_id, points, <<>>, <<>>).facts
    ELSE aggregate_and_upsert_hourly_loader({}, session.thing_location, st.ds_id,
             st.thing_id, points).facts

\* C5: however a point set is split over successive calls, the final rows
\* equal the rows one call with the whole set leaves.
C5_SplitIndependent ==
    pc = "agg" => Stats(session.observation_hour) = Stats(OneCall(Flatten(calls)))

\* C9: a direct call returns the greatest raw timestamp over the buckets it
\* wrote, and None when it wrote no bucket.
C9_ReturnsMaxWritten ==
    (pc = "agg" /\ calls # <<>>) =>
        LET pts == LastCall
            W == {i \in 1..Len(pts) : LocAt(floor_hour(pts[i].ts)) # None}
        IN ret = IF W = {} THEN None ELSE Some(SetMax({pts[i].ts : i \in W}))


\* ---- the ingestion cycles (Spec)
\* a step in which the lines after the loop of a native datastream run, the
\* observation stream having been read to its end
DsEndStep ==
    /\ pc = "ds" /\ st.k = "ds" /\ st.stream = <<>>
    /\ pc' = "ds" /\ st'.k = "none"

\* the same for a composite stream
MdEndStep ==
    /\ pc = "md" /\ st.k = "md" /\ st.stream = <<>>
    /\ pc' = "md" /\ st'.k = "none"

\* C6: when the observation stream of a datastream has been read to its end,
\* the committed watermark of the datastream is the greatest phenomenonTime
\* among the observations processed for it; for a composite stream this is the
\* watermark of each of its component datastreams.
C6_WatermarkIsMaxProcessed ==
    [][/\ (DsEndStep /\ st.seen # {}) =>
            /\ st.ds_id \in DOMAIN committed'.ingestion_state
            /\ committed'.ingestion_state[st.ds_id] = SetMax(st.seen)
       /\ (MdEndStep /\ st.seen # {}) =>
            \A r \in committed.datastream :
                (\E idx \in 0..(MD_WM_RANGE - 1) :
                     r.datastream_id = VdsId(st.md_id, idx)) =>
                   /\ r.datastream_id \in DOMAIN committed'.ingestion_state
                   /\ committed'.ingestion_state[r.datastream_id] = SetMax(st.seen)]_vars

\* datastream 1 has two observations in one hour, both read in one cycle: one
\* fact row with cnt = 2 and their mean, and the watermark at the later one
C6_Witness ==
    /\ crashes = 0 /\ cycles = 1 /\ pc = "ds" /\ st.k = "none"
    /\ Len(upstream[DsSrc(1)]) = 2
    /\ upstream[DsSrc(1)][1].ts = HourLen
    /\ 1 \in DOMAIN committed.ingestion_state
    /\ committed.ingestion_state[1] = HourLen + 1
    /\ \E r \in committed.observation_hour :
          /\ r.datastream_id = 1 /\ r.hour = HourLen /\ r.cnt = 2
          /\ r.avg_val = Rat(10 * HourLen + 5, 1)
          /\ r.min_val = 10 * HourLen /\ r.max_val = 10 * HourLen + 10
    /\ Cardinality({r \in committed.observation_hour : r.datastream_id = 1}) = 1

\* C7 (rudn): the observations a batch flush committed before the process was
\* killed short of the lines after the loop are merged once more when the
\* stream is next read to its end.
C7_CrashReplayMergesAgain ==
    [][(variant = "rudn" /\ (DsEndStep \/ MdEndStep)) =>
          \A o \in st.redo : committed'.fed[o] >= 2]_vars

\* after a kill, a fact row of datastream 1 counts more points than the
\* datastream has observations in that hour
C7_Witness ==
    /\ variant = "rudn" /\ crashes >= 1
    /\ \E r \in committed.observation_hour :
          /\ r.datastream_id = 1
          /\ r.cnt > Cardinality({i \in 1..Len(upstream[DsSrc(1)]) :
                                     floor_hour(upstream[DsSrc(1)][i].ts) = r.hour})
          /\ \E o \in ObsIds : o[1] = DsSrc(1) /\ committed.fed[o] = 2

\* the fetched observations whose effect a kill in this state would lose:
\* the points buffered in memory and the points merged but not committed
Unsaved ==
    Cardinality({o \in ObsIds : session.fed[o] > committed.fed[o]})
    + (IF st.k = "ds"
       THEN (IF variant = "rudn" THEN Len(st.buffer) ELSE Len(st.batch))
       ELSE IF st.k = "md" THEN st.count ELSE 0)

\* C8: a kill loses at most one batch of fetched points.
C8_AtMostOneBatchUnsaved ==
    Unsaved <= (IF variant = "rudn" THEN BATCH_SIZE ELSE LOADER_BATCH)

\* C10: a datastream has a watermark row only if a fact row has been written
\* for it.
C10_WatermarkOnlyAfterWrite ==
    \A d \in DOMAIN committed.ingestion_state :
        \E r \in committed.observation_hour : r.datastream_id = d

\* ---- C11 (SpecAgg)
\* skipped_counter.get(thing_id, 0)
CounterAt(counter, k) == IF k \in DOMAIN counter THEN counter[k] ELSE 0

\* the rows of a datastream at an hour, whatever their location
RowsAt(facts, ds_id, h) == {r \in facts : r.datastream_id = ds_id /\ r.hour = h}

\* C11: a direct call writes no fact row for an hour bucket whose location does
\* not resolve, and (loader-rudn, which keeps the per-Thing counter) raises the
\* skip counter of the Thing by the number of raw points in those buckets.
C11_SkipCountsPoints ==
    [][Len(calls') = Len(calls) + 1 =>
         LET pts == calls'[Len(calls')]
             S == {i \in 1..Len(pts) : LocAt(floor_hour(pts[i].ts)) = None}
         IN /\ \A i \in S :
                 RowsAt(session'.observation_hour, st.ds_id, floor_hour(pts[i].ts))
                 = RowsAt(session.observation_hour, st.ds_id, floor_hour(pts[i].ts))
            /\ variant = "rudn" =>
                 CounterAt(skipped_counter', st.thing_id)
                 = CounterAt(skipped_counter, st.thing_id) + Cardinality(S)]_vars

\* ================================== the location history of a Thing (SpecHist)
\* upsert_locations_things rebuilds the thing_location rows of Thing 1 from the
\* record the API returns for it, and resolve_location_id reads them.  Here
\* cycles counts the finished cycles, remote is the record of the last sync, st
\* and ret are the arguments and the result of the last resolve_location_id call
\* of the ingestion that follows the sync.
MaxLog == 3
MaxSyncs == 2

\* loader-rudn: ids of the Locations whose name is in TARGET_LOCATIONS
ALLOWED_LOC_IDS == {1}
HistLids == {1, 2}
HistTimes == {1, HourLen, HourLen + 1}
HistEvents == {[time |-> t, lid |-> l] : t \in HistTimes, l \in HistLids}

\* a Thing of the API: HistoricalLocations (in any order) and current Locations
Records ==
    {[hist |-> h, locs |-> c] :
        h \in UNION {[1..n -> HistEvents] : n \in 0..MaxLog},
        c \in {<<>>} \cup {<<l>> : l \in HistLids}}

\* rows.sort(key=time): a stable sort
RECURSIVE InsertByTime(_, _)
InsertByTime(sorted, ev) ==
    IF sorted = <<>> THEN <<ev>>
    ELSE IF Head(sorted).time <= ev.time
         THEN <<Head(sorted)>> \o InsertByTime(Tail(sorted), ev)
         ELSE <<ev>> \o sorted

RECURSIVE SortByTime(_)
SortByTime(events) ==
    IF events = <<>> THEN <<>>
    ELSE InsertByTime(SortByTime(SubSeq(events, 1, Len(events) - 1)),
                      events[Len(events)])

\* the interval of the i-th of the sorted events
IntervalOf(tid, events, i) ==
    [thing_id |-> tid, location_id |-> events[i].lid,
     start_time |-> events[i].time,
     end_time |-> IF i + 1 <= Len(events) THEN events[i + 1].time ELSE T_MAX]

ThingRows(tl, tid) == {r \in tl : r.thing_id = tid}

\* INSERT INTO thing_location, one row after the other; the primary key is
\* (thing_id, start_time): a second row with the key of a stored one raises
\* UniqueViolation.  Result [tl, failed].
RECURSIVE InsertRows(_, _)
InsertRows(tl, rows) ==
    IF rows = <<>> THEN [tl |-> tl, failed |-> FALSE]
    ELSE IF \E r \in tl : r.thing_id = Head(rows).thing_id
                          /\ r.start_time = Head(rows).start_time
         THEN [tl |-> tl, failed |-> TRUE]
         ELSE InsertRows(tl \cup {Head(rows)}, Tail(rows))

\* loader-rudn, the body of "for thing in frost_get(.../Things)":
\* result [tl, allowed, failed]
SyncThingRudn(tl, tid, rec) ==
    LET visited == {rec.locs[i] : i \in 1..Len(rec.locs)}
                   \cup {rec.hist[i].lid : i \in 1..Len(rec.hist)}
        rows == SortByTime(rec.hist)
        all == [i \in 1..Len(rows) |-> IntervalOf(tid, rows, i)]
        ins == IF rec.hist # <<>>
               THEN SelectSeq(all, LAMBDA r : r.location_id \in ALLOWED_LOC_IDS)
               ELSE IF rec.locs # <<>> /\ rec.locs[1] \in ALLOWED_LOC_IDS
                    THEN <<[thing_id |-> tid, location_id |-> rec.locs[1],
                            start_time |-> T_MIN, end_time |-> T_MAX]>>
                    ELSE <<>>
        done == InsertRows(tl \ ThingRows(tl, tid), ins)
    IN IF visited \cap ALLOWED_LOC_IDS = {}
       THEN [tl |-> tl, allowed |-> FALSE, failed |-> FALSE]
       ELSE [tl |-> done.tl, allowed |-> TRUE, failed |-> done.failed]

\* loader, the body of "for thing in frost_get(.../Things)"
SyncThingLoader(tl, tid, rec) ==
    LET sorted == SortByTime(rec.hist)
        events == IF sorted = <<>> /\ rec.locs # <<>>
                  THEN <<[time |-> T_MIN, lid |-> rec.locs[1]]>>
                  ELSE sorted
        all == [i \in 1..Len(events) |-> IntervalOf(tid, events, i)]
        intervals == SelectSeq(all, LAMBDA r : r.start_time < r.end_time)
    IN IF intervals # <<>>
       THEN InsertRows(tl \ ThingRows(tl, tid), intervals).tl
       ELSE tl

InitHist ==
    /\ variant \in Variants
    /\ upstream = [s \in Sources |-> <<>>]
    /\ session = Tables(variant)
    /\ committed = Tables(variant)
    /\ ALLOWED_THING_IDS = {}
    /\ pc = "catalog"
    /\ todo = <<>>
    /\ st = NoSt
    /\ loc_cache = <<>>
    /\ skipped_counter = <<>>
    /\ cycles = 0
    /\ crashes = 0
    /\ calls = <<>>
    /\ ret = None
    /\ remote = None
    /\ fg = None
    /\ sched = None

\* upsert_locations_things of loader-rudn for the one Thing of the API; a
\* failed statement leaves the transaction aborted and the commit at the end
\* of the function rolls it back
SyncRudnFrom(records) ==
    /\ pc = "catalog" /\ variant = "rudn"
    /\ \E rec \in records :
         LET r == SyncThingRudn(session.thing_location, 1, rec)
         IN /\ remote' = [rec |-> rec, allowed |-> r.allowed, failed |-> r.failed]
            /\ session' = [session EXCEPT
                              !.thing_location = IF r.failed THEN @ ELSE r.tl]
            /\ ALLOWED_THING_IDS' = IF r.allowed THEN ALLOWED_THING_IDS \cup {1}
                                    ELSE ALLOWED_THING_IDS
    /\ committed' = session'
    /\ pc' = "ingest"
    /\ UNCHANGED <<fg, sched, variant, upstream, todo, st, loc_cache, skipped_counter,
                   cycles, crashes, calls, ret>>

SyncRudn == SyncRudnFrom(Records)

\* upsert_locations_things of loader for the one Thing of the API
SyncLoader ==
    /\ pc = "catalog" /\ variant = "loader"
    /\ \E rec \in Records :
         /\ remote' = [rec |-> rec, allowed |-> TRUE, failed |-> FALSE]
         /\ session' = [session EXCEPT
                           !.thing_location = SyncThingLoader(@, 1, rec)]
    /\ committed' = session'
    /\ pc' = "ingest"
    /\ UNCHANGED <<fg, sched, variant, upstream, ALLOWED_THING_IDS, todo, st, loc_cache,
                   skipped_counter, cycles, crashes, calls, ret>>

\* the hours the aggregator asks about
HistHours == {floor_hour(t) : t \in 0..MaxT}

\* resolve_location_id(cur, 1, at_time, loc_cache) of loader-rudn; st.hit
\* tells whether the key was in the cache
ResolveRudn ==
    /\ pc = "ingest" /\ variant = "rudn"
    /\ \E at \in HistHours :
         LET r == resolve_location_id_rudn(session.thing_location, 1, at, loc_cache)
         IN /\ ret' = r.loc
            /\ loc_cache' = r.cache
            /\ st' = [k |-> "resolve", thing_id |-> 1, at_time |-> at,
                      hit |-> Cardinality(DOMAIN loc_cache) <= CACHE_LIMIT
                              /\ <<1, floor_hour(at)>> \in DOMAIN loc_cache]
    /\ UNCHANGED <<remote, fg, sched, variant, upstream, session, committed,
                   ALLOWED_THING_IDS, pc, todo, skipped_counter, cycles, crashes, calls>>

\* resolve_location_id(cur, 1, at_hour) of loader
ResolveLoader ==
    /\ pc = "ingest" /\ variant = "loader"
    /\ \E at \in HistHours :
         /\ ret' = resolve_location_id_loader(session.thing_location, 1, at)
         /\ st' = [k |-> "resolve", thing_id |-> 1, at_time |-> at]
    /\ UNCHANGED <<remote, fg, sched, variant, upstream, session, committed,
                   ALLOWED_THING_IDS, pc, todo, loc_cache, skipped_counter, cycles,
                   crashes, calls>>

\* a mutation of IngestEnd: the location cache outlives the ingestion functions
IngestEndKeepingCache ==
    /\ pc = "ingest" /\ cycles + 1 < MaxSyncs
    /\ pc' = "catalog"
    /\ cycles' = cycles + 1
    /\ st' = NoSt /\ ret' = None
    /\ UNCHANGED <<remote, fg, sched, variant, upstream, session, committed,
                   ALLOWED_THING_IDS, todo, loc_cache, skipped_counter, crashes, calls>>

\* the ingestion functions return: their location cache is gone, the next
\* cycle begins with the catalog
IngestEnd ==
    /\ pc = "ingest" /\ cycles + 1 < MaxSyncs
    /\ pc' = "catalog"
    /\ cycles' = cycles + 1
    /\ st' = NoSt /\ ret' = None /\ loc_cache' = <<>>
    /\ UNCHANGED <<remote, fg, sched, variant, upstream, session, committed,
                   ALLOWED_THING_IDS, todo, skipped_counter, crashes, calls>>

NextHist == SyncRudn \/ SyncLoader \/ ResolveRudn \/ ResolveLoader \/ IngestEnd

SpecHist == InitHist /\ [][NextHist]_vars

\* ---- C12 (SpecHist)
\* C12: resolve_location_id(thing_id, at_time) returns the location of a stored
\* interval of the Thing with start_time <= at_time < end_time, and None when
\* no stored interval of the Thing contains at_time.
C12_ResolveContainingOrNone ==
    st.k = "resolve" =>
        LET rows == Containing(session.thing_location, st.thing_id, st.at_time)
        IN IF rows = {} THEN ret = None
           ELSE \E r \in rows : ret = Some(r.location_id)

\* ---- C13 (SpecHist)
\* the stored intervals of a Thing, ordered by start: q follows r
NextInterval(rows, r, q) ==
    /\ q.start_time > r.start_time
    /\ \A p \in rows : p.start_time > r.start_time => q.start_time <= p.start_time

\* C13: after any catalog sync the stored intervals of a Thing do not overlap
\* and are contiguous: ordered by start, each interval ends where the next one
\* starts.
C13_IntervalsContiguous ==
    LET rows == ThingRows(committed.thing_location, 1)
    IN /\ \A r, q \in rows :
            r # q => ~(r.start_time < q.end_time /\ q.start_time < r.end_time)
       /\ \A r, q \in rows : NextInterval(rows, r, q) => r.end_time = q.start_time

\* ---- C14 (SpecHist)
\* the intervals of an event log: the events sorted by time, each event's
\* interval running from its time to the time of the next event, the last one
\* to the maximum timestamp; without events one interval over all time at the
\* first current location
BuiltIntervals(tid, rec) ==
    LET events == SortByTime(rec.hist)
    IN IF events # <<>>
       THEN {IntervalOf(tid, events, i) : i \in 1..Len(events)}
       ELSE IF rec.locs # <<>>
            THEN {[thing_id |-> tid, location_id |-> rec.locs[1],
                   start_time |-> T_MIN, end_time |-> T_MAX]}
            ELSE {}

NonEmpty(rows) == {r \in rows : r.start_time < r.end_time}

\* the record has an event or a current location, and names no location
\* outside the allow-list of loader-rudn
OnlyAllowed(rec) ==
    /\ rec.hist # <<>> \/ rec.locs # <<>>
    /\ \A i \in 1..Len(rec.hist) : rec.hist[i].lid \in ALLOWED_LOC_IDS
    /\ \A i \in 1..Len(rec.locs) : rec.locs[i] \in ALLOWED_LOC_IDS

\* a step of upsert_locations_things
SyncStep == pc = "catalog" /\ pc' = "ingest"

\* C14: the sync stores for a Thing the intervals of its event log sorted by
\* time, each from its event's time to the next event's time and the last one
\* open-ended, or one interval over all time at the current location when the
\* log is empty.  Stated for records that name allowed locations only, and up
\* to intervals of zero length.
C14_IntervalsFromLog ==
    [][SyncStep /\ OnlyAllowed(remote'.rec) =>
         NonEmpty(ThingRows(committed'.thing_location, 1))
         = NonEmpty(BuiltIntervals(1, remote'.rec))]_vars

\* ---- C15 (SpecHist)
\* C15: after the record of a Thing is synced again (in loader-rudn: of a Thing
\* that passes the allow-list, in a sync whose statements all succeed), every
\* stored interval of the Thing is one built from the newly fetched record: no
\* interval of an earlier sync survives, also when the new record yields no
\* intervals.
C15_NoStaleIntervals ==
    [][SyncStep /\ remote'.allowed /\ ~remote'.failed =>
         ThingRows(committed'.thing_location, 1)
         \subseteq BuiltIntervals(1, remote'.rec)]_vars

\* ============================================ the paged reader (SpecFrost)
\* frost_get(url, params, retries=4, backoff=0.8) is the same generator in both
\* variants.  fg holds the server it reads and the generator's frame:
\*   server   the number of records of each page of the collection; page i
\*            carries an @iot.nextLink to page i + 1 unless it is the last
\*   page     the page url points at
\*   attempt  the loop variable of "for attempt in range(retries)"
\*   reqs     the GET requests sent for the current page
\*   sleeps   the time.sleep arguments since the current page was first
\*            requested, in tenths of a second
\*   idx      the records of the current page already yielded
\*   out      the records the consumer has received
\*   mode     "request", "page" (inside "for v in vals"), "done" (returned)
\*            or "raised" (RuntimeError)
\*   last     the outcome of the last request
MaxPages == 2
MaxRecs == 2

FG_RETRIES == 4
FG_BACKOFF == 8

Servers == UNION {[1..n -> 0..MaxRecs] : n \in 1..MaxPages}

\* the records of page p of a server, in the order of its "value" array
PageRecords(server, p) == [i \in 1..server[p] |-> <<p, i>>]

\* @iot.nextLink of page p
HasNextLink(server, p) == p < Len(server)

\* a mutation of frost_sleep: linear backoff
frost_sleep_linear(attempt) == FG_BACKOFF * (attempt + 1)

\* sleep = backoff * (2 ** attempt)
frost_sleep(attempt) == FG_BACKOFF * (2 ^ attempt)

\* the outcomes of s.get that raise inside the try block: a 5xx status, a
\* network failure, another 4xx status (raise_for_status)
FgFailures == {"5xx", "network", "4xx"}

InitFrost ==
    /\ variant \in Variants
    /\ upstream = [s \in Sources |-> <<>>]
    /\ session = Tables(variant)
    /\ committed = Tables(variant)
    /\ ALLOWED_THING_IDS = {}
    /\ pc = "frost"
    /\ todo = <<>>
    /\ st = NoSt
    /\ loc_cache = <<>>
    /\ skipped_counter = <<>>
    /\ cycles = 0
    /\ crashes = 0
    /\ calls = <<>>
    /\ ret = None
    /\ remote = None
    /\ sched = None
    /\ \E server \in Servers :
         fg = [server |-> server, page |-> 1, attempt |-> 0, reqs |-> 0,
               sleeps |-> <<>>, idx |-> 0, out |-> <<>>, mode |-> "request",
               last |-> "none"]

FrostRest == <<remote, sched, variant, upstream, session, committed, ALLOWED_THING_IDS,
               pc, todo, st, loc_cache, skipped_counter, cycles, crashes, calls, ret>>

\* s.get answers 404: return
FgNotFound ==
    /\ pc = "frost" /\ fg.mode = "request"
    /\ fg' = [fg EXCEPT !.reqs = @ + 1, !.last = "404", !.mode = "done"]
    /\ UNCHANGED FrostRest

\* s.get fails: sleep, next attempt; after the last attempt the else branch of
\* the for loop raises RuntimeError
FgFail ==
    /\ pc = "frost" /\ fg.mode = "request"
    /\ \E outcome \in FgFailures :
         fg' = [fg EXCEPT !.reqs = @ + 1, !.last = outcome,
                          !.sleeps = Append(@, frost_sleep(fg.attempt)),
                          !.attempt = @ + 1,
                          !.mode = IF fg.attempt + 1 < FG_RETRIES THEN "request"
                                   ELSE "raised"]
    /\ UNCHANGED FrostRest

\* s.get answers 200: data = r.json(); break
FgOk ==
    /\ pc = "frost" /\ fg.mode = "request"
    /\ fg' = [fg EXCEPT !.reqs = @ + 1, !.last = "200", !.mode = "page", !.idx = 0]
    /\ UNCHANGED FrostRest

\* for v in vals: yield v
FgYield ==
    /\ pc = "frost" /\ fg.mode = "page" /\ fg.idx < fg.server[fg.page]
    /\ fg' = [fg EXCEPT !.idx = @ + 1,
                        !.out = Append(@, PageRecords(fg.server, fg.page)[fg.idx + 1])]
    /\ UNCHANGED FrostRest

\* a mutation of FgNextPage: the next link is not followed
FgNextPageStop ==
    /\ pc = "frost" /\ fg.mode = "page" /\ fg.idx = fg.server[fg.page]
    /\ fg' = [fg EXCEPT !.mode = "done"]
    /\ UNCHANGED FrostRest

\* after the last record of the page: follow @iot.nextLink, or return
FgNextPage ==
    /\ pc = "frost" /\ fg.mode = "page" /\ fg.idx = fg.server[fg.page]
    /\ fg' = IF HasNextLink(fg.server, fg.page)
             THEN [fg EXCEPT !.page = @ + 1, !.attempt = 0, !.reqs = 0,
                             !.sleeps = <<>>, !.idx = 0, !.mode = "request"]
             ELSE [fg EXCEPT !.mode = "done"]
    /\ UNCHANGED FrostRest

NextFrost == FgNotFound \/ FgFail \/ FgOk \/ FgYield \/ FgNextPage

SpecFrost == InitFrost /\ [][NextFrost]_vars

\* the program is one thread: the generator and the loop that consumes it keep
\* running while they can
SpecFrostLive == SpecFrost /\ WF_vars(NextFrost)

\* ---- C16 (SpecFrost)
\* C16: frost_get sends at most 4 requests for a page; a request that fails with
\* a 5xx status or a network failure is followed by a sleep of 0.8 s * 2^attempt
\* (attempt = 0, 1, 2, 3) and the generator raises exactly when the 4th attempt
\* for the page has failed, retrying otherwise; a 404 response ends the
\* generator at once: nothing is yielded, nothing is slept, nothing is raised.
C16_RetryContract ==
    [][fg.mode = "request" /\ fg' # fg =>
         /\ fg'.reqs = fg.reqs + 1
         /\ fg'.reqs <= FG_RETRIES
         /\ fg'.last \in {"5xx", "network"} =>
              /\ fg'.sleeps = Append(fg.sleeps, FG_BACKOFF * (2 ^ fg.reqs))
              /\ fg'.out = fg.out
              /\ IF fg'.reqs = FG_RETRIES THEN fg'.mode = "raised"
                 ELSE fg'.mode = "request" /\ fg'.page = fg.page
         /\ fg'.last = "404" =>
              /\ fg'.mode = "done"
              /\ fg'.out = fg.out
              /\ fg'.sleeps = fg.sleeps
         /\ fg'.mode = "raised" => fg'.reqs = FG_RETRIES /\ fg'.last \in FgFailures]_vars

\* the generator has raised after four failed attempts for the second page
C16_Witness ==
    /\ fg # None
    /\ fg.mode = "raised"
    /\ fg.page = 2
    /\ Len(fg.sleeps) = FG_RETRIES

\* ---- C17 (SpecFrostLive)
\* the records of pages 1..p of a server, in page order
RECURSIVE RecordsUpTo(_, _)
RecordsUpTo(server, p) ==
    IF p = 0 THEN <<>> ELSE RecordsUpTo(server, p - 1) \o PageRecords(server, p)

\* C17: frost_get yields the records of the pages in page order, following the
\* next link of each response: what the consumer has received is always the
\* records of the pages before the current one and the first records of the
\* current page, and when the generator returns after a response without a
\* next link the consumer has received every record of every page.  The chain
\* of a server is finite: unless the requests for some page fail four times,
\* the generator eventually returns.
C17_YieldsAllPagesAndEnds ==
    /\ [](fg.out = RecordsUpTo(fg.server, fg.page - 1)
                   \o SubSeq(PageRecords(fg.server, fg.page), 1, fg.idx))
    /\ [](fg.mode = "done" /\ fg.last = "200" =>
            fg.out = RecordsUpTo(fg.server, Len(fg.server)))
    /\ <>(fg.mode = "done" \/ fg.mode = "raised")

\* the generator has returned after the last of two pages with records
C17_Witness ==
    /\ fg # None
    /\ fg.mode = "done" /\ fg.last = "200"
    /\ fg.page = 2
    /\ fg.server[1] > 0 /\ fg.server[2] > 0
    /\ Len(fg.out) = fg.server[1] + fg.server[2]

\* ---- C18 (Spec)
\* the fetch of the entity being read used up its retries
FetchFailStep ==
    /\ st.k \in {"ds", "md"} /\ st.stream # <<>>
    /\ st'.k = "none"
    /\ crashes' = crashes

\* C18: when the fetch for one datastream or composite stream uses up its
\* retries, the processing of that entity stops and the cycle goes on with the
\* next entity: the phase stays the same and the entities after the failed one
\* are still to be read.
C18_FetchFailureContinues ==
    [][FetchFailStep => pc' = pc /\ todo' = Tail(todo)]_vars

\* ============================================ the scheduling loop (SpecSched)
\* run_schedule calls main() for ever.  sched is the position of the one thread
\* of the program and what the current cycle has done:
\*   at      "start" (before time.sleep(5)), "loop" (top of while True),
\*           "health" (main, the healthcheck GET), "connect" (connect_db),
\*           "phase" (the i-th call of main's try block), "sleep" (main is
\*           over, before time.sleep(load_interval)), "exited" (run_schedule
\*           was left by an exception)
\*   i       the index of the phase main is about to run
\*   done    the phases of this cycle that returned: their writes are committed
\*   exc     how the last main() ended: "none", "healthcheck" (logged, returned),
\*           "RuntimeError" (retries used up) or "db" (a database error)
\*   caught  who handled the exception: "none", "main" or "run_schedule"
\*   active  the number of main() calls that have not returned
\*   slept   the argument of the last time.sleep
\*   api     whether the API answers: "up" or "down"
\* cycles counts the calls of main() up to MaxCycles.
LOAD_INTERVAL == 300
START_DELAY == 5

MainPhases(v) ==
    IF v = "rudn"
    THEN <<"ensure_aux_tables", "upsert_locations_things", "upsert_props_and_ds",
           "upsert_props_and_virtual_ds_from_md", "ingest_ds_observations",
           "ingest_md_observations">>
    ELSE <<"ensure_aux_tables", "ensure_strict_observation_table",
           "upsert_locations_things", "upsert_observed_properties_and_datastreams",
           "ingest_observations">>

\* the phases in which a frost_get that used up its retries is not caught
FetchRaises ==
    {"upsert_locations_things", "upsert_props_and_ds",
     "upsert_props_and_virtual_ds_from_md",
     "upsert_observed_properties_and_datastreams", "ingest_observations"}

InitSched ==
    /\ variant \in Variants
    /\ upstream = [s \in Sources |-> <<>>]
    /\ session = Tables(variant)
    /\ committed = Tables(variant)
    /\ ALLOWED_THING_IDS = {}
    /\ pc = "sched"
    /\ todo = <<>>
    /\ st = NoSt
    /\ loc_cache = <<>>
    /\ skipped_counter = <<>>
    /\ cycles = 0
    /\ crashes = 0
    /\ calls = <<>>
    /\ ret = None
    /\ remote = None
    /\ fg = None
    /\ \E api \in {"up", "down"} :
         sched = [at |-> "start", i |-> 0, done |-> <<>>, exc |-> "none",
                  caught |-> "none", active |-> 0, slept |-> 0, api |-> api]

SchedRest == <<remote, fg, variant, upstream, session, committed, ALLOWED_THING_IDS,
               pc, todo, st, loc_cache, skipped_counter, crashes, calls, ret>>

\* the API goes down or comes back
ApiFlip ==
    /\ pc = "sched" /\ sched.at # "exited"
    /\ sched' = [sched EXCEPT !.api = IF @ = "up" THEN "down" ELSE "up"]
    /\ UNCHANGED <<cycles, SchedRest>>

\* run_schedule: time.sleep(5) before the loop
SchedStart ==
    /\ pc = "sched" /\ sched.at = "start"
    /\ sched' = [sched EXCEPT !.at = "loop", !.slept = START_DELAY]
    /\ UNCHANGED <<cycles, SchedRest>>

\* while True: try: main().  loader-rudn's main begins with the healthcheck,
\* the loader's main with connect_db
SchedCallMain ==
    /\ pc = "sched" /\ sched.at = "loop"
    /\ sched' = [sched EXCEPT !.at = IF variant = "rudn" THEN "health" ELSE "connect",
                              !.i = 0, !.done = <<>>, !.exc = "none",
                              !.caught = "none", !.active = @ + 1]
    /\ cycles' = Min2(cycles + 1, MaxCycles)
    /\ UNCHANGED SchedRest

\* the healthcheck GET succeeds
HealthOk ==
    /\ pc = "sched" /\ sched.at = "health" /\ sched.api = "up"
    /\ sched' = [sched EXCEPT !.at = "connect"]
    /\ UNCHANGED <<cycles, SchedRest>>

\* the healthcheck GET fails: log.error, return
HealthFail ==
    /\ pc = "sched" /\ sched.at = "health" /\ sched.api = "down"
    /\ sched' = [sched EXCEPT !.at = "sleep", !.exc = "healthcheck",
                              !.caught = "main", !.active = @ - 1]
    /\ UNCHANGED <<cycles, SchedRest>>

\* connect_db returns a connection
ConnectOk ==
    /\ pc = "sched" /\ sched.at = "connect"
    /\ sched' = [sched EXCEPT !.at = "phase", !.i = 1]
    /\ UNCHANGED <<cycles, SchedRest>>

\* connect_db raises: it is called outside main's try block
ConnectFail ==
    /\ pc = "sched" /\ sched.at = "connect"
    /\ sched' = [sched EXCEPT !.at = "sleep", !.exc = "db",
                              !.caught = "run_schedule", !.active = @ - 1]
    /\ UNCHANGED <<cycles, SchedRest>>

\* the i-th phase of main returns; after the last one main returns
PhaseOk ==
    /\ pc = "sched" /\ sched.at = "phase"
    /\ sched.api = "up" \/ MainPhases(variant)[sched.i] \notin FetchRaises
    /\ sched' = IF sched.i < Len(MainPhases(variant))
                THEN [sched EXCEPT !.i = @ + 1,
                                   !.done = Append(@, MainPhases(variant)[sched.i])]
                ELSE [sched EXCEPT !.at = "sleep", !.active = @ - 1,
                                   !.done = Append(@, MainPhases(variant)[sched.i])]
    /\ UNCHANGED <<cycles, SchedRest>>

\* a mutation of PhaseFail: the exception is not an Exception for the handlers
PhaseFailExit ==
    /\ pc = "sched" /\ sched.at = "phase"
    /\ \E kind \in {"RuntimeError", "db"} :
         /\ kind = "RuntimeError" =>
              sched.api = "down" /\ MainPhases(variant)[sched.i] \in FetchRaises
         /\ sched' = [sched EXCEPT !.at = "exited", !.exc = kind, !.active = @ - 1]
    /\ UNCHANGED <<cycles, SchedRest>>

\* the i-th phase raises: loader-rudn's main catches Exception, logs and
\* returns; the loader's main has only a finally and run_schedule catches it
PhaseFail ==
    /\ pc = "sched" /\ sched.at = "phase"
    /\ \E kind \in {"RuntimeError", "db"} :
         /\ kind = "RuntimeError" =>
              sched.api = "down" /\ MainPhases(variant)[sched.i] \in FetchRaises
         /\ sched' = [sched EXCEPT !.at = "sleep", !.exc = kind, !.active = @ - 1,
                                   !.caught = IF variant = "rudn" THEN "main"
                                              ELSE "run_schedule"]
    /\ UNCHANGED <<cycles, SchedRest>>

\* time.sleep(config.load_interval), then the next turn of the loop
SchedSleep ==
    /\ pc = "sched" /\ sched.at = "sleep"
    /\ sched' = [sched EXCEPT !.at = "loop", !.slept = LOAD_INTERVAL]
    /\ UNCHANGED <<cycles, SchedRest>>

\* the steps of the program's thread
SchedRun ==
    \/ SchedStart \/ SchedCallMain \/ HealthOk \/ HealthFail \/ ConnectOk
    \/ ConnectFail \/ PhaseOk \/ PhaseFail \/ SchedSleep

NextSched == SchedRun \/ ApiFlip

SpecSched == InitSched /\ [][NextSched]_vars

\* the thread keeps running: every call of the loop returns or raises
SpecSchedLive == SpecSched /\ WF_vars(SchedRun)

\* ---- C19 (SpecSched)
\* C19: every cycle begins with the healthcheck GET of the API root: the first
\* thing main() does is the healthcheck, and when the healthcheck fails the
\* cycle ends at once, without a database connection, a catalog sync or any
\* other phase that writes to the database.
C19_HealthcheckFirst ==
    [][/\ sched.at = "loop" /\ sched'.at # "loop" => sched'.at = "health"
       /\ sched.at = "health" /\ sched.api = "down" /\ sched'.at # "health" =>
            sched'.at = "sleep" /\ sched'.done = <<>>]_vars

\* ---- C20 (SpecSchedLive)
\* C20: the scheduling loop is never left because of a failed cycle: whatever a
\* cycle raises is caught (in main or in run_schedule), the loop then sleeps the
\* configured interval and starts another cycle, again and again; a cycle
\* starts only when no earlier call of main() is still running.
C20_LoopNeverEnds ==
    /\ [](sched.at # "exited")
    /\ [](sched.active <= 1 /\ (sched.at \in {"loop", "sleep", "start"} => sched.active = 0))
    /\ [](sched.exc # "none" /\ sched.at = "sleep" => sched.caught \in {"main", "run_schedule"})
    /\ [](sched.at = "loop" /\ cycles > 0 => sched.slept = LOAD_INTERVAL)
    /\ [](sched.at = "sleep" => <>(sched.at = "loop"))
    /\ []<>(sched.at \in {"health", "connect"} /\ sched.i = 0)

\* a second cycle is about to start after a cycle that ended with a database
\* error in a phase
C20_Witness ==
    /\ sched # None
    /\ sched.at = "loop"
    /\ sched.exc = "db"
    /\ sched.i > 0
    /\ sched.slept = LOAD_INTERVAL

\* ============================================ the phases of main (SpecMain)
\* main() runs its phases on one connection with autocommit off.  Here sched is
\* the position inside one main() and what its transaction has done:
\*   at         "idle" (no main() running), "phase" (inside the i-th phase)
\*   i          the index of the running phase
\*   done       the phases that returned
\*   wrote      the phases of which a write statement succeeded in this cycle
\*   pending    the phases with writes in the open transaction
\*   persisted  the phases with committed writes of this cycle
\*   aborted    a statement of the open transaction failed: PostgreSQL ignores
\*              the rest of the transaction and answers its COMMIT by ROLLBACK
\*   crashed    the process was killed in this cycle
\* cycles counts the calls of main().

\* the phases whose loop body is "try: ... except Exception: log.warning(...)":
\* a failed statement is logged and the phase goes on to its conn.commit()
SwallowsDbErrors(v) ==
    IF v = "rudn"
    THEN {"upsert_locations_things", "upsert_props_and_ds",
          "upsert_props_and_virtual_ds_from_md"}
    ELSE {}

\* the phases that commit before they end: per batch or per datastream, and
\* the loader's Locations before its Things
CommitsInside(v) ==
    IF v = "rudn" THEN {"ingest_ds_observations", "ingest_md_observations"}
    ELSE {"upsert_locations_things", "ingest_observations"}

InitMain ==
    /\ variant \in Variants
    /\ upstream = [s \in Sources |-> <<>>]
    /\ session = Tables(variant)
    /\ committed = Tables(variant)
    /\ ALLOWED_THING_IDS = {}
    /\ pc = "main"
    /\ todo = <<>>
    /\ st = NoSt
    /\ loc_cache = <<>>
    /\ skipped_counter = <<>>
    /\ cycles = 0
    /\ crashes = 0
    /\ calls = <<>>
    /\ ret = None
    /\ remote = None
    /\ fg = None
    /\ sched = [at |-> "idle", i |-> 0, done |-> <<>>, wrote |-> {}, pending |-> {},
                persisted |-> {}, aborted |-> FALSE, crashed |-> FALSE]

MainRest == <<remote, fg, variant, upstream, session, committed, ALLOWED_THING_IDS,
              pc, todo, st, loc_cache, skipped_counter, calls, ret>>

\* main(): connect_db(), then the first phase
MainBegin ==
    /\ pc = "main" /\ sched.at = "idle" /\ cycles < MaxCycles
    /\ sched' = [at |-> "phase", i |-> 1, done |-> <<>>, wrote |-> {}, pending |-> {},
                 persisted |-> {}, aborted |-> FALSE, crashed |-> FALSE]
    /\ cycles' = cycles + 1
    /\ UNCHANGED <<crashes, MainRest>>

\* a write statement of the running phase succeeds (in an aborted transaction
\* no statement does)
PhaseWrite ==
    /\ pc = "main" /\ sched.at = "phase" /\ ~sched.aborted
    /\ LET p == MainPhases(variant)[sched.i]
       IN sched' = [sched EXCEPT !.wrote = @ \cup {p}, !.pending = @ \cup {p}]
    /\ UNCHANGED <<cycles, crashes, MainRest>>

\* a statement of the running phase fails (a unique violation, say): a phase
\* that swallows the exception goes on in the aborted transaction; elsewhere
\* the exception leaves main, whose conn.close() drops the open transaction
PhaseStmtFail ==
    /\ pc = "main" /\ sched.at = "phase"
    /\ LET p == MainPhases(variant)[sched.i]
       IN sched' = IF p \in SwallowsDbErrors(variant)
                   THEN [sched EXCEPT !.aborted = TRUE]
                   ELSE [sched EXCEPT !.at = "idle", !.pending = {},
                                      !.aborted = FALSE]
    /\ UNCHANGED <<cycles, crashes, MainRest>>

\* conn.commit() inside a phase that commits as it goes
PhaseCommitInside ==
    /\ pc = "main" /\ sched.at = "phase"
    /\ MainPhases(variant)[sched.i] \in CommitsInside(variant)
    /\ sched.pending # {}
    /\ sched' = [sched EXCEPT !.pending = {},
                              !.persisted = IF sched.aborted THEN @
                                            ELSE @ \cup sched.pending,
                              !.aborted = FALSE]
    /\ UNCHANGED <<cycles, crashes, MainRest>>

\* the conn.commit() at the end of the running phase; the phase returns and the
\* next one begins, or main returns
PhaseEnd ==
    /\ pc = "main" /\ sched.at = "phase"
    /\ LET p == MainPhases(variant)[sched.i]
           last == sched.i = Len(MainPhases(variant))
       IN sched' = [sched EXCEPT !.pending = {},
                                 !.persisted = IF sched.aborted THEN @
                                               ELSE @ \cup sched.pending,
                                 !.aborted = FALSE,
                                 !.done = Append(@, p),
                                 !.i = IF last THEN @ ELSE @ + 1,
                                 !.at = IF last THEN "idle" ELSE "phase"]
    /\ UNCHANGED <<cycles, crashes, MainRest>>

\* the process is killed: the open transaction is lost
MainCrash ==
    /\ pc = "main" /\ sched.at = "phase" /\ crashes < MaxCrash
    /\ sched' = [sched EXCEPT !.at = "idle", !.pending = {}, !.aborted = FALSE,
                              !.crashed = TRUE]
    /\ crashes' = crashes + 1
    /\ UNCHANGED <<cycles, MainRest>>

NextMain ==
    \/ MainBegin \/ PhaseWrite \/ PhaseStmtFail \/ PhaseCommitInside \/ PhaseEnd
    \/ MainCrash

SpecMain == InitMain /\ [][NextMain]_vars

\* ---- C21 (SpecMain)
\* phase q comes before phase p in main
PhaseBefore(q, p) ==
    \E a, b \in 1..Len(MainPhases(variant)) :
        a < b /\ MainPhases(variant)[a] = q /\ MainPhases(variant)[b] = p

\* C21: the phases of a cycle run in the order of main, the writes of a phase
\* are committed before the next phase begins, and so what is persisted at any
\* point (a crash included) never holds effects of a phase without the effects
\* of the phases before it that wrote.
C21_PersistedIsPrefix ==
    /\ \A k \in 1..Len(sched.done) : sched.done[k] = MainPhases(variant)[k]
    /\ \A q \in sched.wrote :
         (\E k \in 1..Len(sched.done) : sched.done[k] = q) => q \in sched.persisted
    /\ \A p \in sched.persisted, q \in sched.wrote :
         PhaseBefore(q, p) => q \in sched.persisted

\* ---- C22 (Spec)
\* the in-memory batch of the datastream being read, and the batch size
BatchOf(s) == IF variant = "rudn" THEN s.buffer ELSE s.batch
BatchLimit == IF variant = "rudn" THEN BATCH_SIZE ELSE LOADER_BATCH

\* C22: while a datastream is read its in-memory batch stays below the batch
\* size between two reads: the read that fills it aggregates it, commits and
\* clears it; when the stream has ended the rest of the batch is aggregated in
\* the step that sets the watermark and commits.
C22_BatchFlushedAtSize ==
    [][/\ st'.k = "ds" => Len(BatchOf(st')) < BatchLimit
       /\ st.k = "ds" /\ st'.k = "ds" /\ st.stream # <<>>
          /\ Head(st.stream).result # None /\ Len(BatchOf(st)) + 1 >= BatchLimit =>
            /\ BatchOf(st') = <<>>
            /\ \A i \in 1..Len(BatchOf(st)) :
                 session'.fed[BatchOf(st)[i].id] = session.fed[BatchOf(st)[i].id] + 1
            /\ session'.fed[Head(st.stream).id] = session.fed[Head(st.stream).id] + 1
            /\ committed' = session'
       /\ st.k = "ds" /\ st.stream = <<>> /\ st'.k = "none" /\ crashes' = crashes =>
            /\ \A i \in 1..Len(BatchOf(st)) :
                 session'.fed[BatchOf(st)[i].id] = session.fed[BatchOf(st)[i].id] + 1
            /\ committed' = session']_vars

\* ================================================ norm_bigint_id (SpecId)
\* norm_bigint_id(raw, kind) of loader-rudn turns a remote @iot.id into a
\* bigint key.  Strings are sequences of one-character strings.  TLC integers
\* have 32 bits, so an id is written in base 10^7 as <<top, hi, lo>>, of value
\* top * 10^14 + hi * 10^7 + lo (a parsed integer is <<0, 0, n>>), and sha1 is
\* computed on 32-bit words written as pairs of 16-bit halves.

\* ---- hashlib.sha1 (FIPS 180-4), messages of at most 55 bytes
\* 32-bit words are pairs <<hi, lo>> of 16-bit halves
RECURSIVE Xor16(_, _, _)
Xor16(a, b, n) ==
    IF n = 0 THEN 0
    ELSE 2 * Xor16(a \div 2, b \div 2, n - 1) + ((a + b) % 2)

RECURSIVE And16(_, _, _)
And16(a, b, n) ==
    IF n = 0 THEN 0
    ELSE 2 * And16(a \div 2, b \div 2, n - 1) + ((a % 2) * (b % 2))

Xor32(a, b) == <<Xor16(a[1], b[1], 16), Xor16(a[2], b[2], 16)>>
And32(a, b) == <<And16(a[1], b[1], 16), And16(a[2], b[2], 16)>>
Or32(a, b) == <<a[1] + b[1] - And16(a[1], b[1], 16), a[2] + b[2] - And16(a[2], b[2], 16)>>
Not32(a) == <<65535 - a[1], 65535 - a[2]>>

\* rotate left by n < 16
RotlSmall(a, n) ==
    <<((a[1] * (2 ^ n)) % 65536) + (a[2] \div (2 ^ (16 - n))),
      ((a[2] * (2 ^ n)) % 65536) + (a[1] \div (2 ^ (16 - n)))>>

Rotl32(a, n) == IF n < 16 THEN RotlSmall(a, n) ELSE RotlSmall(<<a[2], a[1]>>, n - 16)

Add32(a, b) ==
    LET lo == a[2] + b[2]
        hi == a[1] + b[1] + (lo \div 65536)
    IN <<hi % 65536, lo % 65536>>

Word(hi, lo) == <<hi, lo>>

Digits == <<"0", "1", "2", "3", "4", "5", "6", "7", "8", "9">>
Upper == <<"A", "B", "C", "D", "E", "F", "G", "H", "I", "J", "K", "L", "M",
           "N", "O", "P", "Q", "R", "S", "T", "U", "V", "W", "X", "Y", "Z">>
Lower == <<"a", "b", "c", "d", "e", "f", "g", "h", "i", "j", "k", "l", "m",
           "n", "o", "p", "q", "r", "s", "t", "u", "v", "w", "x", "y", "z">>

IndexOf(seq, c) == CHOOSE i \in 1..Len(seq) : seq[i] = c
InSeq(seq, c) == \E i \in 1..Len(seq) : seq[i] = c

Ord(c) ==
    IF InSeq(Digits, c) THEN 47 + IndexOf(Digits, c)
    ELSE IF InSeq(Upper, c) THEN 64 + IndexOf(Upper, c)
    ELSE IF InSeq(Lower, c) THEN 96 + IndexOf(Lower, c)
    ELSE IF c = " " THEN 32
    ELSE IF c = "-" THEN 45
    ELSE IF c = "." THEN 46
    ELSE 58

\* the one 64-byte block of a message of at most 55 bytes
PadBlock(msg) ==
    [i \in 1..64 |->
        IF i <= Len(msg) THEN Ord(msg[i])
        ELSE IF i = Len(msg) + 1 THEN 128
        ELSE IF i = 63 THEN (8 * Len(msg)) \div 256
        ELSE IF i = 64 THEN (8 * Len(msg)) % 256
        ELSE 0]

BlockWords(block) ==
    [t \in 1..16 |-> <<256 * block[4 * t - 3] + block[4 * t - 2],
                        256 * block[4 * t - 1] + block[4 * t]>>]

\* the message schedule extended to n words
RECURSIVE Schedule(_, _)
Schedule(w, n) ==
    IF Len(w) >= n THEN w
    ELSE LET t == Len(w) + 1
         IN Schedule(Append(w, Rotl32(Xor32(Xor32(w[t - 3], w[t - 8]),
                                            Xor32(w[t - 14], w[t - 16])), 1)), n)

ShaF(t, b, c, d) ==
    IF t <= 20 THEN Or32(And32(b, c), And32(Not32(b), d))
    ELSE IF t <= 40 THEN Xor32(Xor32(b, c), d)
    ELSE IF t <= 60 THEN Or32(Or32(And32(b, c), And32(b, d)), And32(c, d))
    ELSE Xor32(Xor32(b, c), d)

ShaK(t) ==
    IF t <= 20 THEN Word(23170, 31129)
    ELSE IF t <= 40 THEN Word(28377, 60321)
    ELSE IF t <= 60 THEN Word(36635, 48348)
    ELSE Word(51810, 49622)

ShaInit == <<Word(26437, 8961), Word(61389, 43913), Word(39098, 56574),
             Word(4146, 21622), Word(50130, 57840)>>

\* round t of the compression function
Round(s, w, t) ==
    <<Add32(Add32(Add32(Rotl32(s[1], 5), ShaF(t, s[2], s[3], s[4])),
                  Add32(s[5], ShaK(t))), w[t]),
      s[1], Rotl32(s[2], 30), s[3], s[4]>>

\* rounds lo..hi, by halves
RECURSIVE Rounds(_, _, _, _)
Rounds(s, w, lo, hi) ==
    IF lo = hi THEN Round(s, w, lo)
    ELSE LET mid == (lo + hi) \div 2
         IN CHOOSE y \in {Rounds(x, w, mid + 1, hi) : x \in {Rounds(s, w, lo, mid)}} : TRUE

\* the first 8 bytes of sha1(msg) as 64 bits
Sha1Head(msg) ==
    CHOOSE d \in
        {Add32(ShaInit[1], s[1]) \o Add32(ShaInit[2], s[2]) :
            s \in {Rounds(ShaInit, w, 1, 80) :
                w \in {Schedule(w3, 80) :
                    w3 \in {Schedule(w2, 64) :
                        w2 \in {Schedule(w1, 48) :
                            w1 \in {Schedule(BlockWords(PadBlock(msg)), 32)}}}}}} : TRUE

\* ---- the function
Limb == 10 ^ 7

\* BIG_STR_OFFSET = 800_000_000_000_000
BIG_STR_OFFSET == <<8, 0, 0>>

\* (x * m + d) % 10^14 for x = <<hi, lo>> in base 10^7 and m * 10^7 < 2^31
MulAddMod(x, m, d) ==
    LET lo == x[2] * m + d
        hi == x[1] * m + (lo \div Limb)
    IN <<hi % Limb, lo % Limb>>

\* (x * 65536 + h) % 10^14, four bits at a time
Push16(x, h) ==
    CHOOSE r \in
        {MulAddMod(c, 16, h % 16) :
            c \in {MulAddMod(b, 16, (h \div 16) % 16) :
                b \in {MulAddMod(a, 16, (h \div 256) % 16) :
                    a \in {MulAddMod(x, 16, h \div 4096)}}}} : TRUE

\* int.from_bytes(h[:8], "big") % 100_000_000_000_000
V64Mod(head) ==
    CHOOSE r \in
        {Push16(c, head[4]) :
            c \in {Push16(b, head[3]) :
                b \in {Push16(a, head[2]) :
                    a \in {Push16(<<0, 0>>, head[1])}}}} : TRUE

\* str(raw).strip()
RECURSIVE LStrip(_)
LStrip(str) == IF str # <<>> /\ Head(str) = " " THEN LStrip(Tail(str)) ELSE str

RECURSIVE RStrip(_)
RStrip(str) ==
    IF str # <<>> /\ str[Len(str)] = " " THEN RStrip(SubSeq(str, 1, Len(str) - 1))
    ELSE str

Strip(str) == RStrip(LStrip(str))

\* int(sraw): an optional sign and decimal digits
Unsigned(str) ==
    IF str # <<>> /\ Head(str) \in {"-", "+"} THEN Tail(str) ELSE str

IntParsable(str) ==
    /\ Unsigned(str) # <<>>
    /\ \A i \in 1..Len(Unsigned(str)) : InSeq(Digits, Unsigned(str)[i])

RECURSIVE DigitsValue(_)
DigitsValue(str) ==
    IF str = <<>> THEN 0
    ELSE 10 * DigitsValue(SubSeq(str, 1, Len(str) - 1))
         + (IndexOf(Digits, str[Len(str)]) - 1)

IntValue(str) ==
    IF str[1] = "-" THEN 0 - DigitsValue(Unsigned(str)) ELSE DigitsValue(Unsigned(str))

\* a mutation of norm_bigint_id: the hash value is not moved into the
\* reserved range
norm_bigint_id_no_offset(raw, kind) ==
    IF raw.t = "int" THEN <<0, 0, raw.v>>
    ELSE IF IntParsable(Strip(raw.s)) THEN <<0, 0, IntValue(Strip(raw.s))>>
    ELSE <<0>> \o V64Mod(Sha1Head(kind \o <<":">> \o Strip(raw.s)))

\* a mutation of norm_bigint_id: the entity kind is not hashed
norm_bigint_id_no_kind(raw, kind) ==
    IF raw.t = "int" THEN <<0, 0, raw.v>>
    ELSE IF IntParsable(Strip(raw.s)) THEN <<0, 0, IntValue(Strip(raw.s))>>
    ELSE <<BIG_STR_OFFSET[1]>> \o V64Mod(Sha1Head(<<":">> \o Strip(raw.s)))

norm_bigint_id(raw, kind) ==
    IF raw.t = "int" THEN <<0, 0, raw.v>>
    ELSE IF IntParsable(Strip(raw.s)) THEN <<0, 0, IntValue(Strip(raw.s))>>
    ELSE <<BIG_STR_OFFSET[1]>> \o V64Mod(Sha1Head(kind \o <<":">> \o Strip(raw.s)))

\* ---- the calls
RawIds ==
    {[t |-> "int", v |-> 7],
     [t |-> "str", s |-> <<"7">>],
     [t |-> "str", s |-> <<" ", "4", "2", " ">>],
     [t |-> "str", s |-> <<"-", "3">>],
     [t |-> "str", s |-> <<"S", "e", "n", "s", "o", "r", "-", "4", "2">>],
     [t |-> "str", s |-> <<"s", "e", "n", "s", "o", "r", "-", "4", "2">>],
     [t |-> "str", s |-> <<"4", "2", "a">>],
     [t |-> "str", s |-> <<"1", "2", ".", "5">>]}

Kinds ==
    {<<"T", "h", "i", "n", "g", "s">>,
     <<"L", "o", "c", "a", "t", "i", "o", "n", "s">>,
     <<"D", "a", "t", "a", "s", "t", "r", "e", "a", "m", "s">>}

InitId ==
    /\ variant = "rudn"
    /\ upstream = [s \in Sources |-> <<>>]
    /\ session = Tables("rudn")
    /\ committed = session
    /\ ALLOWED_THING_IDS = {}
    /\ pc = "norm"
    /\ todo = <<>>
    /\ st = NoSt
    /\ loc_cache = <<>>
    /\ skipped_counter = <<>>
    /\ cycles = 0
    /\ crashes = 0
    /\ calls = <<>>
    /\ ret = None
    /\ remote = None
    /\ fg = None
    /\ sched = None

IdRest == <<remote, fg, sched, variant, upstream, session, committed,
            ALLOWED_THING_IDS, todo, loc_cache, skipped_counter, cycles, crashes>>

\* norm_bigint_id(raw, kind); calls keeps the arguments and the result
NormCall(next) ==
    /\ \E raw \in RawIds, kind \in Kinds :
         LET out == norm_bigint_id(raw, kind)
         IN /\ st' = [k |-> "norm", raw |-> raw, kind |-> kind]
            /\ ret' = Some(out)
            /\ calls' = Append(calls, [raw |-> raw, kind |-> kind, out |-> out])
    /\ pc' = next
    /\ UNCHANGED IdRest

\* a first call
NormFirst == pc = "norm" /\ NormCall("again")

\* a later call in the same process
NormAgain == pc = "again" /\ NormCall("done")

NextId == NormFirst \/ NormAgain

SpecId == InitId /\ [][NextId]_vars


\* ---- C23, C24
\* a raw id that is a JSON number, or a string of decimal digits with an
\* optional sign and blanks around it
NumericRaw(raw) ==
    \/ raw.t = "int"
    \/ /\ raw.t = "str"
       /\ \E i \in 1..Len(raw.s) : raw.s[i] # " "
       /\ \A i \in 1..Len(raw.s) : raw.s[i] \in {" ", "-", "+"} \/ InSeq(Digits, raw.s[i])
       /\ \A i \in 1..Len(raw.s) :
            raw.s[i] \in {"-", "+"} => (i = 1 \/ raw.s[i - 1] = " ") /\ i < Len(raw.s)
                                        /\ InSeq(Digits, raw.s[i + 1])
       /\ \A i, j \in 1..Len(raw.s) :
            (i < j /\ raw.s[i] # " " /\ raw.s[j] # " ") =>
                \A m \in i..j : raw.s[m] # " "

\* the integer a numeric raw id denotes
RECURSIVE NativeValue(_, _)
NativeValue(str, acc) ==
    IF str = <<>> THEN acc
    ELSE IF InSeq(Digits, Head(str))
         THEN NativeValue(Tail(str), 10 * acc + IndexOf(Digits, Head(str)) - 1)
         ELSE NativeValue(Tail(str), acc)

NativeId(raw) ==
    IF raw.t = "int" THEN raw.v
    ELSE IF \E i \in 1..Len(raw.s) : raw.s[i] = "-" THEN 0 - NativeValue(raw.s, 0)
    ELSE NativeValue(raw.s, 0)

\* the ids below top * 10^14: <<t, h, l>> with t < top
BelowOffset(id) == id[1] < BIG_STR_OFFSET[1]

\* C23: norm_bigint_id returns a numeric raw id as its integer; every other
\* string is mapped into [800_000_000_000_000, 900_000_000_000_000), which is
\* below 2^63 (92233 * 10^14 < 2^63), and so differs from the result of
\* every numeric id of the run, all of which are below the offset.
C23_ReservedRange ==
    \A i \in 1..Len(calls) :
        LET c == calls[i]
        IN IF NumericRaw(c.raw)
           THEN c.out = <<0, 0, NativeId(c.raw)>>
           ELSE /\ c.out[1] = BIG_STR_OFFSET[1]
                /\ c.out[1] < 92233
                /\ c.out[2] \in 0..(Limb - 1)
                /\ c.out[3] \in 0..(Limb - 1)
                /\ \A j \in 1..Len(calls) :
                     NumericRaw(calls[j].raw) =>
                         BelowOffset(calls[j].out) /\ calls[j].out # c.out

\* a numeric string and a non-numeric string have both been normalised
C23_Witness ==
    /\ Len(calls) = 2
    /\ calls[1].raw = [t |-> "str", s |-> <<" ", "4", "2", " ">>]
    /\ calls[1].out = <<0, 0, 42>>
    /\ calls[2].raw.t = "str"
    /\ ~NumericRaw(calls[2].raw)
    /\ calls[2].out[1] = 8

Sensor42 == [t |-> "str", s |-> <<"S", "e", "n", "s", "o", "r", "-", "4", "2">>]

NULL == "NULL"

\* SYN_OP_OFFSET = 900_000_000_000
SYN_OP_OFFSET == <<0, 90000, 0>>

\* config.RUDN_OBS_PROPS, the names written by their codes
RUDN_OBS_PROPS ==
    <<[name |-> "Dn", unit |-> "deg"], [name |-> "Dm", unit |-> "deg"],
      [name |-> "Dx", unit |-> "deg"], [name |-> "Sn", unit |-> "m/s"],
      [name |-> "Sm", unit |-> "m/s"], [name |-> "Sx", unit |-> "m/s"],
      [name |-> "Ta", unit |-> "C"], [name |-> "Ua", unit |-> "%"],
      [name |-> "Pa", unit |-> "hPa"], [name |-> "Rc", unit |-> "mm"]>>

OpNames == {"Ta", "Ua"}
OpUnits == {"C", NULL}
RemoteOpIds == {<<0, 0, 1>>, <<0, 0, 2>>}
MdComponents == {6, 10}

\* SYN_OP_OFFSET + md_id * 100 + idx
SynOpId(md_id, idx) == <<0, SYN_OP_OFFSET[2], VdsId(md_id, idx)>>

\* the remote Datastreams and MultiDatastream components a sync can meet
RemoteDatastreams ==
    [kind : {"ds"}, ds_id : {1}, op_id : RemoteOpIds, name : OpNames,
     unit : OpUnits, allowed : BOOLEAN]

RemoteComponents ==
    [kind : {"md"}, md_id : {1}, idx : MdComponents, name : {"Ua"},
     allowed : BOOLEAN]

\* SELECT obs_prop_id FROM observed_property
\* WHERE name = %s AND unit_symbol IS NOT DISTINCT FROM %s
FindOp(db, name, unit) ==
    {id \in DOMAIN db.observed_property :
        db.observed_property[id] = [name |-> name, unit_symbol |-> unit]}

\* COALESCE(a, b) on text
CoalesceText(a, b) == IF a # NULL THEN a ELSE b

\* the unique index idx_op_name_unit on (name, unit_symbol): nulls are distinct
IdxOpNameUnit(ops) ==
    \A a, b \in DOMAIN ops :
        (a # b /\ ops[a].name = ops[b].name /\ ops[a].unit_symbol # NULL)
            => ops[a].unit_symbol # ops[b].unit_symbol

PutRow(f, key, row) == [k \in DOMAIN f \cup {key} |-> IF k = key THEN row ELSE f[k]]

\* INSERT INTO observed_property ... ON CONFLICT(obs_prop_id) DO UPDATE SET
\* name = COALESCE(EXCLUDED.name, name), unit_symbol = COALESCE(EXCLUDED..., ...)
InsertOpCoalesce(ops, id, name, unit) ==
    PutRow(ops, id,
           IF id \in DOMAIN ops
           THEN [name |-> CoalesceText(name, ops[id].name),
                 unit_symbol |-> CoalesceText(unit, ops[id].unit_symbol)]
           ELSE [name |-> name, unit_symbol |-> unit])

\* ... DO UPDATE SET name = EXCLUDED.name, unit_symbol = EXCLUDED.unit_symbol
InsertOpOverwrite(ops, id, name, unit) ==
    PutRow(ops, id, [name |-> name, unit_symbol |-> unit])

\* a mutation of Lookup: the property is looked up by its name alone
LookupByName(db, name, unit) ==
    {id \in DOMAIN db.observed_property : db.observed_property[id].name = name}

\* a mutation of Lookup: no search by (name, unit_symbol), the remote id is used
LookupNever(db, name, unit) == {}

Lookup(db, name, unit) == FindOp(db, name, unit)

\* one Datastream of upsert_props_and_ds (loader-rudn); found is the row
\* fetchone() returned, None if there is none
DsStepRudn(db, e, found) ==
    LET ops == IF found # None THEN db.observed_property
               ELSE InsertOpCoalesce(db.observed_property, e.op_id, e.name, e.unit)
        final_op_id == IF found # None THEN found ELSE e.op_id
    IN IF ~IdxOpNameUnit(ops) THEN [db |-> db, err |-> TRUE, final |-> None]
       ELSE [db |-> [observed_property |-> ops,
                     datastream |-> PutRow(db.datastream, e.ds_id, final_op_id)],
             err |-> FALSE, final |-> final_op_id]

\* one Datastream of upsert_observed_properties_and_datastreams (loader)
DsStepLoader(db, e, found) ==
    LET ops == IF found # None
               THEN InsertOpOverwrite(db.observed_property, found, e.name, e.unit)
               ELSE InsertOpOverwrite(db.observed_property, e.op_id, e.name, e.unit)
        final_op_id == IF found # None THEN found ELSE e.op_id
    IN IF ~IdxOpNameUnit(ops) THEN [db |-> db, err |-> TRUE, final |-> None]
       ELSE [db |-> [observed_property |-> ops,
                     datastream |-> PutRow(db.datastream, e.ds_id, final_op_id)],
             err |-> FALSE, final |-> final_op_id]

\* the name and the unit of component idx of a MultiDatastream
ComponentName(e) ==
    IF e.idx < Len(RUDN_OBS_PROPS) THEN RUDN_OBS_PROPS[e.idx + 1].name ELSE e.name

ComponentUnit(e) ==
    IF e.idx < Len(RUDN_OBS_PROPS) THEN RUDN_OBS_PROPS[e.idx + 1].unit ELSE NULL

\* one component of upsert_props_and_virtual_ds_from_md (loader-rudn)
MdStepRudn(db, e, found) ==
    LET real_op_id == IF found # None THEN found ELSE SynOpId(e.md_id, e.idx)
        old == db.observed_property
        ops == IF found # None THEN old
               ELSE PutRow(old, real_op_id,
                           [name |-> ComponentName(e),
                            unit_symbol |->
                                IF real_op_id \in DOMAIN old
                                THEN CoalesceText(ComponentUnit(e), old[real_op_id].unit_symbol)
                                ELSE ComponentUnit(e)])
    IN IF ~IdxOpNameUnit(ops) THEN [db |-> db, err |-> TRUE, final |-> None]
       ELSE [db |-> [observed_property |-> ops,
                     datastream |-> PutRow(db.datastream, VdsId(e.md_id, e.idx), real_op_id)],
             err |-> FALSE, final |-> real_op_id]

\* the rows fetchone() can return
Fetched(rows) == IF rows = {} THEN {None} ELSE rows

EmptyCatalog == [observed_property |-> <<>>, datastream |-> <<>>]

InitOp ==
    /\ variant \in {"rudn", "loader"}
    /\ upstream = [s \in Sources |-> <<>>]
    /\ session = EmptyCatalog
    /\ committed = session
    /\ ALLOWED_THING_IDS = {}
    /\ pc = "props"
    /\ todo = <<>>
    /\ st = NoSt
    /\ loc_cache = <<>>
    /\ skipped_counter = <<>>
    /\ cycles = 0
    /\ crashes = 0
    /\ calls = <<>>
    /\ ret = None
    /\ remote = None
    /\ fg = None
    /\ sched = None

OpRest == <<fg, sched, variant, upstream, ALLOWED_THING_IDS, todo, loc_cache,
            skipped_counter, cycles, crashes, calls, ret>>

\* loader-rudn: a Datastream of a Thing outside the allow-list is skipped
\* before any statement
OpSkipRudn ==
    /\ variant = "rudn"
    /\ pc \in {"props", "aborted"}
    /\ \E e \in RemoteDatastreams \cup RemoteComponents :
         /\ ~e.allowed
         /\ remote' = None
         /\ st' = [k |-> "skip"]
    /\ UNCHANGED <<session, committed, pc, OpRest>>

\* loader-rudn: one Datastream; a failed statement is logged and leaves the
\* transaction aborted
OpDsRudn ==
    /\ variant = "rudn"
    /\ pc = "props"
    /\ \E e \in RemoteDatastreams :
         /\ e.allowed
         /\ \E found \in Fetched(Lookup(session, e.name, e.unit)) :
              LET r == DsStepRudn(session, e, found)
              IN /\ session' = r.db
                 /\ pc' = IF r.err THEN "aborted" ELSE "props"
                 /\ st' = [k |-> "ds", found |-> found, final |-> r.final, err |-> r.err]
         /\ remote' = e
    /\ UNCHANGED <<committed, OpRest>>

\* loader-rudn: one component of a MultiDatastream
OpMdRudn ==
    /\ variant = "rudn"
    /\ pc = "props"
    /\ \E e \in RemoteComponents :
         /\ e.allowed
         /\ \E found \in Fetched(Lookup(session, ComponentName(e), ComponentUnit(e))) :
              LET r == MdStepRudn(session, e, found)
              IN /\ session' = r.db
                 /\ pc' = IF r.err THEN "aborted" ELSE "props"
                 /\ st' = [k |-> "md", found |-> found, final |-> r.final, err |-> r.err]
         /\ remote' = e
    /\ UNCHANGED <<committed, OpRest>>

\* loader-rudn: in an aborted transaction the first statement of an entity
\* raises and the entity is logged as skipped
OpFailedRudn ==
    /\ variant = "rudn"
    /\ pc = "aborted"
    /\ \E e \in RemoteDatastreams \cup RemoteComponents :
         /\ e.allowed
         /\ remote' = None
    /\ st' = [k |-> "failed"]
    /\ UNCHANGED <<session, committed, pc, OpRest>>

\* loader: one Datastream; a failed statement ends main, the connection is
\* closed and the work of the phase is rolled back
OpDsLoader ==
    /\ variant = "loader"
    /\ pc = "props"
    /\ \E e \in RemoteDatastreams :
         /\ \E found \in Fetched(Lookup(session, e.name, e.unit)) :
              LET r == DsStepLoader(session, e, found)
              IN /\ session' = IF r.err THEN committed ELSE r.db
                 /\ st' = [k |-> "ds", found |-> found, final |-> r.final, err |-> r.err]
         /\ remote' = e
    /\ UNCHANGED <<committed, pc, OpRest>>

\* conn.commit() at the end of the phase; on an aborted transaction the
\* server answers with a rollback
OpCommit ==
    /\ pc \in {"props", "aborted"}
    /\ session # committed \/ pc = "aborted"
    /\ IF pc = "aborted"
       THEN session' = committed /\ committed' = committed
       ELSE committed' = session /\ session' = session
    /\ pc' = "props"
    /\ st' = [k |-> "commit"]
    /\ remote' = None
    /\ UNCHANGED OpRest

NextOp ==
    \/ OpSkipRudn
    \/ OpDsRudn
    \/ OpMdRudn
    \/ OpFailedRudn
    \/ OpDsLoader
    \/ OpCommit

SpecOp == InitOp /\ [][NextOp]_vars


\* ---- C25
NoDuplicatePairs(db) ==
    \A a, b \in DOMAIN db.observed_property :
        a # b => db.observed_property[a] # db.observed_property[b]

\* a Datastream has been processed without an error
DsSynced == remote' # None /\ remote'.kind = "ds" /\ st'.k = "ds" /\ ~st'.err

TARGET_LOCATIONS == {"Main RUDN University campus"}

LocNames == {"Main RUDN University campus", "Campus B"}

\* the shapes of the "location" attribute of a remote Location
LocForms == {"missing", "Point", "Point1", "Polygon", "Feature", "value",
             "lonlat", "Point3857"}

LocPoints == {<<37, 55>>, <<39, 57>>}

RemoteLocations == [id : {1}, name : LocNames, form : LocForms, xy : LocPoints]

\* abs(x) > 180 or abs(y) > 90
is_epsg3857(x, y) == x > 180 \/ x < -180 \/ y > 90 \/ y < -90

\* the coordinates a remote shape carries: a Polygon is the square from xy
\* to xy + (2, 2), a Point3857 is the point 100000 * xy
ShapeXY(loc) ==
    IF loc.form = "Polygon" THEN <<(loc.xy[1] + loc.xy[1] + 2) \div 2,
                                   (loc.xy[2] + loc.xy[2] + 2) \div 2>>
    ELSE IF loc.form = "Point3857" THEN <<100000 * loc.xy[1], 100000 * loc.xy[2]>>
    ELSE loc.xy

\* parse_location_coords of loader-rudn
parse_location_coords(loc) ==
    IF loc.form \in {"Point", "Polygon", "Feature", "value", "Point3857"}
    THEN IF is_epsg3857(ShapeXY(loc)[1], ShapeXY(loc)[2])
         THEN <<ShapeXY(loc)[1], ShapeXY(loc)[2], 3857>>
         ELSE ShapeXY(loc)
    ELSE IF loc.form = "lonlat" THEN loc.xy
    ELSE None

\* the coordinates loader reads: a GeoJSON Point with two coordinates
PointCoords(loc) ==
    IF loc.form \in {"Point", "Point3857"} THEN ShapeXY(loc) ELSE None

\* a mutation of UpsertLocation: geom = EXCLUDED.geom
UpsertLocationOverwrite(locs, id, name, geom) ==
    [k \in DOMAIN locs \cup {id} |->
        IF k = id THEN [name |-> name, geom |-> geom] ELSE locs[k]]

\* INSERT INTO location ... ON CONFLICT(location_id) DO UPDATE SET
\* name = EXCLUDED.name, geom = COALESCE(EXCLUDED.geom, location.geom)
UpsertLocation(locs, id, name, geom) ==
    [k \in DOMAIN locs \cup {id} |->
        IF k = id
        THEN [name |-> name,
              geom |-> IF geom # None \/ id \notin DOMAIN locs THEN geom
                       ELSE locs[id].geom]
        ELSE locs[k]]

InitLoc ==
    /\ variant \in {"rudn", "loader"}
    /\ upstream = [s \in Sources |-> <<>>]
    /\ session = [location |-> <<>>]
    /\ committed = session
    /\ ALLOWED_THING_IDS = {}
    /\ pc = "locations"
    /\ todo = <<>>
    /\ st = NoSt
    /\ loc_cache = {}
    /\ skipped_counter = <<>>
    /\ cycles = 0
    /\ crashes = 0
    /\ calls = <<>>
    /\ ret = None
    /\ remote = None
    /\ fg = None
    /\ sched = None

LocRest == <<fg, sched, variant, upstream, ALLOWED_THING_IDS, todo, pc,
             skipped_counter, cycles, crashes, calls, ret>>

\* loader-rudn: a Location whose name is not in TARGET_LOCATIONS is skipped
LocSkipRudn ==
    /\ variant = "rudn"
    /\ \E loc \in RemoteLocations :
         /\ loc.name \notin TARGET_LOCATIONS
         /\ remote' = loc
    /\ st' = [k |-> "skip"]
    /\ UNCHANGED <<session, committed, loc_cache, LocRest>>

\* loader-rudn: an allowed Location is remembered and upserted
LocUpsertRudn ==
    /\ variant = "rudn"
    /\ \E loc \in RemoteLocations :
         /\ loc.name \in TARGET_LOCATIONS
         /\ remote' = loc
         /\ loc_cache' = loc_cache \cup {loc.id}
         /\ st' = [k |-> "loc", lonlat |-> parse_location_coords(loc)]
         /\ session' = [session EXCEPT !.location =
                           UpsertLocation(@, loc.id, loc.name, parse_location_coords(loc))]
    /\ UNCHANGED <<committed, LocRest>>

\* loader: every Location is upserted
LocUpsertLoader ==
    /\ variant = "loader"
    /\ \E loc \in RemoteLocations :
         /\ remote' = loc
         /\ st' = [k |-> "loc", lonlat |-> PointCoords(loc)]
         /\ session' = [session EXCEPT !.location =
                           UpsertLocation(@, loc.id, loc.name, PointCoords(loc))]
    /\ UNCHANGED <<committed, loc_cache, LocRest>>

\* conn.commit(): after the Locations loop in loader, after the Things loop
\* in loader-rudn
LocCommit ==
    /\ session # committed
    /\ committed' = session
    /\ st' = [k |-> "commit"]
    /\ remote' = None
    /\ UNCHANGED <<session, loc_cache, LocRest>>

\* loader-rudn: a statement of the Things loop failed, the commit of the
\* phase is answered by a rollback
LocRollbackRudn ==
    /\ variant = "rudn"
    /\ session # committed
    /\ session' = committed
    /\ st' = [k |-> "rollback"]
    /\ remote' = None
    /\ UNCHANGED <<committed, loc_cache, LocRest>>

NextLoc ==
    \/ LocSkipRudn
    \/ LocUpsertRudn
    \/ LocUpsertLoader
    \/ LocCommit
    \/ LocRollbackRudn

SpecLoc == InitLoc /\ [][NextLoc]_vars

\* ---- C26
\* C26: the upsert of a remote Location without usable coordinates leaves the
\* stored geometry of that Location as it was and sets its name to the
\* remote name.
C26_GeometryKept ==
    [][ (st'.k = "loc" /\ st'.lonlat = None /\ remote'.id \in DOMAIN session.location) =>
            /\ session'.location[remote'.id].geom = session.location[remote'.id].geom
            /\ session'.location[remote'.id].name = remote'.name ]_vars

\* a Location stored with a point and another name has been synced again
\* without coordinates
C26_Witness ==
    /\ st.k = "loc"
    /\ st.lonlat = None
    /\ remote.id \in DOMAIN committed.location
    /\ committed.location[remote.id].geom = <<37, 55>>
    /\ committed.location[remote.id].name # remote.name
    /\ session.location[remote.id] = [name |-> remote.name, geom |-> <<37, 55>>]


\* ==================================================== Catalog sync (SpecSync)
\* The catalog phases of main, one phase per step, run cycle after cycle
\* against one upstream catalog chosen at the start.  In this specification
\* upstream is that catalog, session and committed hold the five catalog
\* tables, and calls keeps the committed tables at the end of every cycle.
SyncRecords == {r \in Records : Len(r.hist) <= 1}
SyncUnits == {"C", "F"}
MaxDs == 3

\* the Datastreams of the catalog, all of Thing 1: the i-th has id i, an
\* ObservedProperty and a unit; the ObservedProperties have ids 1 and 2
DatastreamLists ==
    UNION {[1..n -> [op : {1, 2}, unit : SyncUnits]] : n \in 1..MaxDs}

Catalogs ==
    [form : {"Point", "missing"}, thing : SyncRecords, dss : DatastreamLists,
     names : {<<"Ta", "Ta">>, <<"Ta", "Ua">>}]

\* the two Locations of the API
CatalogLocations(cat) ==
    <<[id |-> 1, name |-> "Main RUDN University campus", form |-> cat.form, xy |-> <<37, 55>>],
      [id |-> 2, name |-> "Campus B", form |-> "Point", xy |-> <<39, 57>>]>>

\* the i-th Datastream as the API returns it
CatalogDs(cat, i) ==
    [kind |-> "ds", ds_id |-> i, op_id |-> <<0, 0, cat.dss[i].op>>,
     name |-> cat.names[cat.dss[i].op], unit |-> cat.dss[i].unit]

\* the components of the MultiDatastream of Thing 1
CatalogMd == <<[kind |-> "md", md_id |-> 1, idx |-> 6, name |-> "Ua"],
               [kind |-> "md", md_id |-> 1, idx |-> 10, name |-> "Ua"]>>

\* the Locations loop
RECURSIVE SyncLocations(_, _, _)
SyncLocations(locs, remotes, v) ==
    IF remotes = <<>> THEN locs
    ELSE LET loc == Head(remotes)
         IN IF v = "rudn" /\ loc.name \notin TARGET_LOCATIONS
            THEN SyncLocations(locs, Tail(remotes), v)
            ELSE SyncLocations(
                    UpsertLocation(locs, loc.id, loc.name,
                                   IF v = "rudn" THEN parse_location_coords(loc)
                                   ELSE PointCoords(loc)),
                    Tail(remotes), v)

\* the one row fetchone() returns
FetchOne(rows) == IF rows = {} THEN None ELSE CHOOSE r \in rows : TRUE

\* the Datastreams loop on the tables [observed_property, datastream]:
\* result [db, err]
RECURSIVE SyncDatastreams(_, _, _, _)
SyncDatastreams(db, cat, i, v) ==
    IF i > Len(cat.dss) THEN [db |-> db, err |-> FALSE]
    ELSE LET e == CatalogDs(cat, i)
             found == FetchOne(Lookup(db, e.name, e.unit))
             r == IF v = "rudn" THEN DsStepRudn(db, e, found)
                  ELSE DsStepLoader(db, e, found)
         IN IF r.err THEN [db |-> db, err |-> TRUE]
            ELSE SyncDatastreams(r.db, cat, i + 1, v)

\* the MultiDatastreams loop of loader-rudn: result [db, err]
RECURSIVE SyncComponents(_, _)
SyncComponents(db, comps) ==
    IF comps = <<>> THEN [db |-> db, err |-> FALSE]
    ELSE LET e == Head(comps)
             found == FetchOne(Lookup(db, ComponentName(e), ComponentUnit(e)))
             r == MdStepRudn(db, e, found)
         IN IF r.err THEN [db |-> db, err |-> TRUE]
            ELSE SyncComponents(r.db, Tail(comps))

PropTables(db) ==
    [observed_property |-> db.observed_property, datastream |-> db.datastream]

EmptyTables ==
    [location |-> <<>>, thing |-> <<>>, thing_location |-> {},
     observed_property |-> <<>>, datastream |-> <<>>]

InitSync ==
    /\ variant \in Variants
    /\ upstream \in Catalogs
    /\ session = EmptyTables
    /\ committed = session
    /\ ALLOWED_THING_IDS = {}
    /\ pc = "upsert_locations_things"
    /\ todo = <<>>
    /\ st = NoSt
    /\ loc_cache = {}
    /\ skipped_counter = <<>>
    /\ cycles = 0
    /\ crashes = 0
    /\ calls = <<>>
    /\ ret = None
    /\ remote = None
    /\ fg = None
    /\ sched = None

SyncRest == <<fg, sched, variant, upstream, todo, skipped_counter, crashes,
              ret, remote, st>>

\* the end of a cycle: the committed tables are what the cycle leaves
EndCycle(tables) ==
    /\ calls' = Append(calls, tables)
    /\ cycles' = cycles + 1
    /\ pc' = "upsert_locations_things"

\* loader-rudn: upsert_locations_things; a failed INSERT is logged and the
\* commit at the end is answered by a rollback
LocationsThingsRudn ==
    /\ variant = "rudn"
    /\ pc = "upsert_locations_things"
    /\ cycles < MaxSyncs
    /\ LET locs == SyncLocations(session.location, CatalogLocations(upstream), "rudn")
           r == SyncThingRudn(session.thing_location, 1, upstream.thing)
           db == [session EXCEPT !.location = locs,
                                 !.thing = IF r.allowed THEN PutRow(@, 1, "Thing 1") ELSE @,
                                 !.thing_location = r.tl]
       IN /\ session' = IF r.failed THEN committed ELSE db
          /\ committed' = session'
          /\ ALLOWED_THING_IDS' = IF r.allowed THEN ALLOWED_THING_IDS \cup {1}
                                  ELSE ALLOWED_THING_IDS
          /\ loc_cache' = loc_cache \cup {1}
    /\ pc' = "upsert_props_and_ds"
    /\ UNCHANGED <<cycles, calls, SyncRest>>

\* loader: upsert_locations_things, with a commit after the Locations and
\* one after the Things
LocationsThingsLoader ==
    /\ variant = "loader"
    /\ pc = "upsert_locations_things"
    /\ cycles < MaxSyncs
    /\ LET locs == SyncLocations(session.location, CatalogLocations(upstream), "loader")
       IN /\ session' = [session EXCEPT
                            !.location = locs,
                            !.thing = PutRow(@, 1, "Thing 1"),
                            !.thing_location = SyncThingLoader(@, 1, upstream.thing)]
          /\ committed' = session'
    /\ pc' = "upsert_props_and_ds"
    /\ UNCHANGED <<ALLOWED_THING_IDS, loc_cache, cycles, calls, SyncRest>>

\* loader-rudn: upsert_props_and_ds; the Datastreams of a Thing outside
\* ALLOWED_THING_IDS are skipped
PropsDsRudn ==
    /\ variant = "rudn"
    /\ pc = "upsert_props_and_ds"
    /\ LET r == IF 1 \in ALLOWED_THING_IDS
                THEN SyncDatastreams(PropTables(session), upstream, 1, "rudn")
                ELSE [db |-> PropTables(session), err |-> FALSE]
       IN /\ session' = IF r.err THEN committed
                        ELSE [session EXCEPT !.observed_property = r.db.observed_property,
                                             !.datastream = r.db.datastream]
          /\ committed' = session'
    /\ pc' = "upsert_props_and_virtual_ds_from_md"
    /\ UNCHANGED <<ALLOWED_THING_IDS, loc_cache, cycles, calls, SyncRest>>

\* loader-rudn: upsert_props_and_virtual_ds_from_md, the last catalog phase
PropsMdRudn ==
    /\ variant = "rudn"
    /\ pc = "upsert_props_and_virtual_ds_from_md"
    /\ LET r == IF 1 \in ALLOWED_THING_IDS
                THEN SyncComponents(PropTables(session), CatalogMd)
                ELSE [db |-> PropTables(session), err |-> FALSE]
       IN /\ session' = IF r.err THEN committed
                        ELSE [session EXCEPT !.observed_property = r.db.observed_property,
                                             !.datastream = r.db.datastream]
          /\ committed' = session'
          /\ EndCycle(session')
    /\ UNCHANGED <<ALLOWED_THING_IDS, loc_cache, SyncRest>>

\* loader: upsert_observed_properties_and_datastreams, the last catalog
\* phase; a failed statement ends main without a commit
PropsDsLoader ==
    /\ variant = "loader"
    /\ pc = "upsert_props_and_ds"
    /\ LET r == SyncDatastreams(PropTables(session), upstream, 1, "loader")
       IN /\ session' = IF r.err THEN committed
                        ELSE [session EXCEPT !.observed_property = r.db.observed_property,
                                             !.datastream = r.db.datastream]
          /\ committed' = session'
          /\ EndCycle(session')
    /\ UNCHANGED <<ALLOWED_THING_IDS, loc_cache, SyncRest>>

NextSync ==
    \/ LocationsThingsRudn
    \/ LocationsThingsLoader
    \/ PropsDsRudn
    \/ PropsMdRudn
    \/ PropsDsLoader

SpecSync == InitSync /\ [][NextSync]_vars

\* ---- C27
\* C27: a second catalog sync against the same upstream catalog leaves the
\* five catalog tables as the first sync left them.
C27_SyncIdempotent ==
    \A i \in 1..Len(calls) : i > 1 => calls[i] = calls[i - 1]


\* ================================================= the allow-list (SpecAllow)
\* The ingestion cycles of Spec after a catalog sync with a location filter:
\* Location 1 is allowed, Thing 1 has been at Location 1 at some time, Thing 2
\* has only been at Location 2.  thing_location and ALLOWED_THING_IDS are what
\* the Things loop of loader-rudn makes of these records.
AllowRecords ==
    {[hist |-> <<[time |-> HourLen, lid |-> 1]>>, locs |-> <<1>>],
     [hist |-> <<[time |-> 1, lid |-> 1], [time |-> HourLen, lid |-> 2]>>,
      locs |-> <<2>>]}

OtherRecord == [hist |-> <<[time |-> 1, lid |-> 2]>>, locs |-> <<2>>]

\* the Things loop on Things 1 and 2: result [tl, allowed]
SyncedThings(rec) ==
    LET a == SyncThingRudn({}, 1, rec)
        b == SyncThingRudn(a.tl, 2, OtherRecord)
    IN [tl |-> b.tl,
        allowed |-> {t \in {1} : a.allowed} \cup {t \in {2} : b.allowed}]

InitAllow ==
    /\ variant \in Variants
    /\ upstream = [s \in Sources |-> <<>>]
    /\ \E rec \in AllowRecords :
         /\ session = IF variant = "rudn"
                      THEN [Tables("rudn") EXCEPT !.thing_location = SyncedThings(rec).tl]
                      ELSE Tables("loader")
         /\ ALLOWED_THING_IDS = SyncedThings(rec).allowed
    /\ committed = session
    /\ pc = "idle"
    /\ todo = <<>>
    /\ st = NoSt
    /\ loc_cache = <<>>
    /\ skipped_counter = <<>>
    /\ cycles = 0
    /\ crashes = 0
    /\ calls = <<>>
    /\ ret = None
    /\ remote = None
    /\ fg = None
    /\ sched = None

SpecAllow == InitAllow /\ [][Next]_vars


\* ---- C28
\* the Thing of a stream of the API
SourceThing(src) ==
    IF src \in DsSources
    THEN NativeDs[CHOOSE i \in 1..Len(NativeDs) : DsSrc(NativeDs[i].id) = src].thing
    ELSE MultiDs[CHOOSE i \in 1..Len(MultiDs) : MdSrc(MultiDs[i].id) = src].thing

AllowedTables(db) ==
    /\ \A r \in db.observation_hour :
         r.thing_id \in ALLOWED_THING_IDS /\ r.location_id \in ALLOWED_LOC_IDS
    /\ \A o \in ObsIds : SourceThing(o[1]) \notin ALLOWED_THING_IDS => db.fed[o] = 0
    /\ \A d \in DOMAIN db.ingestion_state :
         \E r \in db.datastream : r.datastream_id = d /\ r.thing_id \in ALLOWED_THING_IDS

MaxFlush == 2
StrictPoints == {[ts |-> t, val |-> v, id |-> <<>>] : t \in {1, HourLen}, v \in {10, 30}}
StrictLists == UNION {[1..n -> StrictPoints] : n \in 1..2}

StrictRecords ==
    {[hist |-> <<[time |-> 1, lid |-> 1]>>, locs |-> <<1>>],
     [hist |-> <<[time |-> 1, lid |-> 1], [time |-> HourLen, lid |-> 2]>>,
      locs |-> <<2>>]}

LegacyRow(loc) ==
    [datastream_id |-> 1, thing_id |-> 1, location_id |-> loc, hour |-> HourLen,
     avg_val |-> 2000, min_val |-> 20, max_val |-> 20, cnt |-> 1,
     raw_sum |-> 20, raw_cnt |-> 1]

\* the tables at the start: with the index, or rows written under the key
\* (datastream_id, location_id, hour) and no index yet
LegacyHeaps ==
    {[heap |-> <<>>, indexed |-> TRUE],
     [heap |-> <<LegacyRow(1)>>, indexed |-> TRUE],
     [heap |-> <<LegacyRow(1)>>, indexed |-> FALSE],
     [heap |-> <<LegacyRow(1), LegacyRow(2)>>, indexed |-> FALSE],
     [heap |-> <<LegacyRow(2), LegacyRow(1)>>, indexed |-> FALSE]}

\* DELETE FROM observation_hour a USING observation_hour b WHERE the keys are
\* equal AND a.ctid < b.ctid
ensure_strict_observation_table(heap) ==
    {heap[i] : i \in {i \in 1..Len(heap) :
        ~\E j \in 1..Len(heap) :
            /\ i < j
            /\ heap[j].datastream_id = heap[i].datastream_id
            /\ heap[j].hour = heap[i].hour}}

InitStrict ==
    /\ variant = "loader"
    /\ upstream = [s \in Sources |-> <<>>]
    /\ \E h \in LegacyHeaps :
         /\ todo = h.heap
         /\ pc = IF h.indexed THEN "ingest" ELSE "ensure"
         /\ session = [observation_hour |-> {h.heap[i] : i \in 1..Len(h.heap)},
                       thing_location |-> {}]
    /\ committed = session
    /\ ALLOWED_THING_IDS = {}
    /\ st = NoSt
    /\ loc_cache = <<>>
    /\ skipped_counter = <<>>
    /\ cycles = 0
    /\ crashes = 0
    /\ calls = <<>>
    /\ ret = None
    /\ remote = None
    /\ fg = None
    /\ sched = None

StrictRest == <<fg, sched, variant, upstream, ALLOWED_THING_IDS, loc_cache,
                skipped_counter, crashes, calls>>

\* ensure_strict_observation_table without the index: the duplicates are
\* deleted, the unique index is created
EnsureStrict ==
    /\ pc = "ensure"
    /\ session' = [session EXCEPT !.observation_hour = ensure_strict_observation_table(todo)]
    /\ committed' = session'
    /\ todo' = <<>>
    /\ pc' = "ingest"
    /\ UNCHANGED <<st, ret, remote, cycles, StrictRest>>

\* upsert_locations_things of a later cycle: the Thing as the API shows it now
StrictSync ==
    /\ pc = "ingest"
    /\ \E rec \in StrictRecords :
         /\ remote # rec
         /\ remote' = rec
         /\ session' = [session EXCEPT !.thing_location = SyncThingLoader(@, 1, rec)]
    /\ committed' = session'
    /\ st' = [k |-> "sync"]
    /\ UNCHANGED <<pc, todo, ret, cycles, StrictRest>>

\* aggregate_and_upsert_hourly on a batch of datastream 1
StrictFlush ==
    /\ pc = "ingest"
    /\ cycles < MaxFlush
    /\ \E points \in StrictLists :
         LET r == aggregate_and_upsert_hourly_loader(session.observation_hour,
                      session.thing_location, 1, 1, points)
         IN /\ session' = [session EXCEPT !.observation_hour = r.facts]
            /\ ret' = r.last_ts
            /\ st' = [k |-> "flush", points |-> points]
    /\ committed' = session'
    /\ cycles' = cycles + 1
    /\ UNCHANGED <<pc, todo, remote, StrictRest>>

NextStrict == EnsureStrict \/ StrictSync \/ StrictFlush

SpecStrict == InitStrict /\ [][NextStrict]_vars

\* ---- C29
BucketVals(points, hour) ==
    {points[i].val : i \in {i \in 1..Len(points) : floor_hour(points[i].ts) = hour}}

BucketCount(points, hour) ==
    Cardinality({i \in 1..Len(points) : floor_hour(points[i].ts) = hour})

\* C29: loader, once the unique index is there: at most one fact row per
\* (datastream_id, hour); a flush leaves the row of each of its hours with the
\* location resolved now, the smaller of the stored and the bucket minimum,
\* the greater of the maxima and the sum of the counts, and touches no row of
\* another hour.
C29_StrictKeyMerge ==
    [][ pc' = "ingest" =>
          /\ \A a, b \in session'.observation_hour :
               (a.datastream_id = b.datastream_id /\ a.hour = b.hour) => a = b
          /\ cycles' = cycles + 1 =>
               \A hour \in {0, HourLen} :
                   LET vals == BucketVals(st'.points, hour)
                       loc == resolve_location_id_loader(session.thing_location, 1, hour)
                       olds == RowsAt(session.observation_hour, 1, hour)
                       news == RowsAt(session'.observation_hour, 1, hour)
                   IN IF vals = {} \/ loc = None THEN news = olds
                      ELSE \E new \in news :
                             /\ new.location_id = loc[1]
                             /\ \A old \in olds :
                                  /\ new.min_val = Min2(old.min_val, -SetMax({-v : v \in vals}))
                                  /\ new.max_val = Max2(old.max_val, SetMax(vals))
                                  /\ new.cnt = old.cnt + BucketCount(st'.points, hour)
                             /\ olds = {} =>
                                  /\ new.min_val = -SetMax({-v : v \in vals})
                                  /\ new.max_val = SetMax(vals)
                                  /\ new.cnt = BucketCount(st'.points, hour) ]_vars

\* a row stored under Location 1 has been merged with a later bucket of its
\* hour after the Thing had moved to Location 2
C29_Witness ==
    /\ pc = "ingest"
    /\ st.k = "flush"
    /\ cycles = 2
    /\ \E r \in session.observation_hour :
         /\ r.hour = HourLen
         /\ r.location_id = 2
         /\ r.cnt = 3
         /\ r.min_val = 10
         /\ r.max_val = 30
    /\ \E r \in session.observation_hour : r.hour = 0 /\ r.location_id = 1


\* ---- C30
\* the point component idx of observation ob gives
ComponentPoint(ob, idx) ==
    [ts |-> ob.ts, val |-> ob.result[idx + 1][1], id |-> ob.id]

\* the points of component idx a step of a composite stream has in hand: the
\* buffered ones and, when the step reads an observation, the value at idx
InHand(idx) ==
    (IF idx \in DOMAIN st.buffers.b THEN st.buffers.b[idx] ELSE <<>>)
    \o (IF st'.k = "md" /\ idx < Len(Head(st.stream).result)
           /\ Head(st.stream).result[idx + 1] # None
        THEN <<ComponentPoint(Head(st.stream), idx)>> ELSE <<>>)

\* the points whose hour has a location for the Thing
Located(points) ==
    SelectSeq(points, LAMBDA p :
        Containing(session.thing_location, st.thing_id, floor_hour(p.ts)) # {})

RECURSIVE SeqValSum(_)
SeqValSum(points) ==
    IF points = <<>> THEN 0 ELSE Head(points).val + SeqValSum(Tail(points))

RECURSIVE RawSumOf(_)
RawSumOf(rows) ==
    IF rows = {} THEN 0
    ELSE LET r == CHOOSE x \in rows : TRUE IN r.raw_sum + RawSumOf(rows \ {r})

RECURSIVE RawCntOf(_)
RawCntOf(rows) ==
    IF rows = {} THEN 0
    ELSE LET r == CHOOSE x \in rows : TRUE IN r.raw_cnt + RawCntOf(rows \ {r})

DsRows(facts, d) == {r \in facts : r.datastream_id = d}

MdComponentIds == 0..(MD_WM_RANGE - 1)

\* every component in hand is merged into the rows of datastream
\* md_id * 100 + idx, and into no other rows
FlushedTogether ==
    /\ \A idx \in MdComponentIds :
         LET d == st.md_id * 100 + idx
         IN /\ RawSumOf(DsRows(session'.observation_hour, d))
                 = RawSumOf(DsRows(session.observation_hour, d))
                   + SeqValSum(Located(InHand(idx)))
            /\ RawCntOf(DsRows(session'.observation_hour, d))
                 = RawCntOf(DsRows(session.observation_hour, d))
                   + Len(Located(InHand(idx)))
            /\ \A i \in 1..Len(InHand(idx)) :
                 session'.fed[InHand(idx)[i].id] = session.fed[InHand(idx)[i].id] + 1
    /\ \A r \in session'.observation_hour \ session.observation_hour :
         \E idx \in MdComponentIds :
            InHand(idx) # <<>> /\ r.datastream_id = st.md_id * 100 + idx

\* C30: in the ingestion of a composite stream the value at index idx goes to
\* the buffer of idx and from there into datastream md_id * 100 + idx only;
\* the buffers are flushed together when BATCH_SIZE observations have been
\* read since the last flush, and not before; the watermarks are written only
\* in the step after the stream that also flushes every buffer.
C30_ComponentRouting ==
    [][ (variant = "rudn" /\ st.k = "md" /\ st' # st /\ crashes' = crashes) =>
          IF st'.k = "md"
          THEN IF st.count + 1 >= BATCH_SIZE
               THEN /\ st'.buffers = NoBuffers
                    /\ st'.count = 0
                    /\ FlushedTogether
                    /\ session'.ingestion_state = session.ingestion_state
               ELSE /\ st'.count = st.count + 1
                    /\ session' = session
                    /\ \A idx \in MdComponentIds :
                         IF InHand(idx) = <<>> THEN idx \notin DOMAIN st'.buffers.b
                         ELSE st'.buffers.b[idx] = InHand(idx)
          ELSE /\ FlushedTogether
               /\ \A d \in DOMAIN session'.ingestion_state :
                    (d \notin DOMAIN session.ingestion_state
                     \/ session'.ingestion_state[d] # session.ingestion_state[d])
                       => /\ d \in {st.md_id * 100 + idx : idx \in MdComponentIds}
                          /\ st.latest_ts # None
                          /\ session'.ingestion_state[d] >= st.latest_ts[1] ]_vars

\* a composite stream has ended with one observation in its buffers, after a
\* flush of a full batch: both components have rows of their own datastream
\* and the watermarks are set
C30_Witness ==
    /\ variant = "rudn"
    /\ pc = "md"
    /\ st = NoSt
    /\ todo = <<>>
    /\ Len(upstream[MdSrc(1)]) = 3
    /\ \A o \in {MdSrc(1)} \X (1..3) : session.fed[o] = 1
    /\ DsRows(session.observation_hour, 100) # {}
    /\ DsRows(session.observation_hour, 101) # {}
    /\ RawSumOf(DsRows(session.observation_hour, 101))
         = RawSumOf(DsRows(session.observation_hour, 100))
           + 5 * RawCntOf(DsRows(session.observation_hour, 100))
    /\ 100 \in DOMAIN session.ingestion_state
    /\ 101 \in DOMAIN session.ingestion_state

\* ======================================= malformed observations (SpecMalformed)
\* The ingestion cycles of Spec against an API whose stream of Datastream 1 or
\* of MultiDatastream 1 already holds observations, some of them malformed.
\* Thing 1 has been at Location 1 since tick 0, so every hour has a location.
DsKinds ==
    {[time_form |-> "iso", result_form |-> "number", null |-> FALSE],
     [time_form |-> "iso", result_form |-> "comma", null |-> FALSE],
     [time_form |-> "missing", result_form |-> "number", null |-> FALSE],
     [time_form |-> "garbled", result_form |-> "number", null |-> FALSE],
     [time_form |-> "iso", result_form |-> "number", null |-> TRUE],
     [time_form |-> "iso", result_form |-> "word", null |-> FALSE]}

\* "partial": a list whose first component is null
MdKinds ==
    {[time_form |-> "iso", result_form |-> "list", null |-> FALSE],
     [time_form |-> "iso", result_form |-> "partial", null |-> FALSE],
     [time_form |-> "missing", result_form |-> "list", null |-> FALSE],
     [time_form |-> "iso", result_form |-> "list", null |-> TRUE],
     [time_form |-> "iso", result_form |-> "scalar", null |-> FALSE]}

\* the observation of kind k a stream serves for tick t
Served(src, t, k) ==
    [ts |-> t,
     result |-> IF k.null THEN None
                ELSE IF k.result_form = "partial" THEN <<None, Some(10 * t + 5)>>
                ELSE IF k.result_form = "scalar" THEN Some(10 * t)
                ELSE Result(src, t),
     time_form |-> k.time_form,
     result_form |-> IF k.result_form = "partial" THEN "list" ELSE k.result_form]

\* streams of observations at ticks 1, 2, ...; one more can arrive
ServedStreams(src, kinds) ==
    {[i \in 1..(MaxObs - 1) |-> Served(src, i, ks[i])] : ks \in [1..(MaxObs - 1) -> kinds]}

InitMalformed ==
    /\ variant \in Variants
    /\ \E src \in {DsSrc(1), MdSrc(1)} :
         /\ src \in MdSources => variant = "rudn"
         /\ \E stream \in ServedStreams(src, IF src \in DsSources THEN DsKinds ELSE MdKinds) :
              upstream = [s \in Sources |-> IF s = src THEN stream ELSE <<>>]
    /\ session = [Tables(variant) EXCEPT
                     !.thing_location = {[thing_id |-> 1, location_id |-> 1,
                                          start_time |-> T_MIN, end_time |-> T_MAX]}]
    /\ committed = session
    /\ ALLOWED_THING_IDS = {1, 2}
    /\ pc = "idle"
    /\ todo = <<>>
    /\ st = NoSt
    /\ loc_cache = <<>>
    /\ skipped_counter = <<>>
    /\ cycles = 0
    /\ crashes = 0
    /\ calls = <<>>
    /\ ret = None
    /\ remote = None
    /\ fg = None
    /\ sched = None

SpecMalformed == InitMalformed /\ [][Next]_vars

\* ---- C31 (SpecMalformed)
\* an observation the claim calls malformed: no or an unparseable timestamp, a
\* null result, a result that is no number (for a composite stream: no list)
MalformedOb(o) ==
    \/ o.time_form \in {"missing", "garbled"}
    \/ o.result = None
    \/ o.result_form \in {"word", "scalar"}

\* an instant and a number, or an instant and a list of numbers
WellFormedOb(o) ==
    /\ o.time_form = "iso"
    /\ o.result # None
    /\ o.result_form \in {"number", "decimal", "list"}
    /\ o.result_form = "list" => \A c \in 1..Len(o.result) : o.result[c] # None

RECURSIVE CntSum(_)
CntSum(rows) ==
    IF rows = {} THEN 0
    ELSE LET r == CHOOSE x \in rows : TRUE IN r.cnt + CntSum(rows \ {r})

\* the datastreams the observations of the stream being read are written to
TargetsOf(s) ==
    IF s.k = "ds" THEN {s.ds_id}
    ELSE {VdsId(s.md_id, idx) : idx \in 0..(Len(Result(s.src, 1)) - 1)}

MaxLookups == 6

CacheThings == {1, 2}

\* thing_location tables: the one of Init, none, and one where Thing 2 moves
CacheTables ==
    {InitThingLocation,
     {},
     InitThingLocation
        \cup {[thing_id |-> 2, location_id |-> 1, start_time |-> T_MIN, end_time |-> 1],
              [thing_id |-> 2, location_id |-> 2, start_time |-> 1, end_time |-> T_MAX]}}

InitCache ==
    /\ variant = "rudn"
    /\ upstream = [s \in Sources |-> <<>>]
    /\ \E tl \in CacheTables : session = [Tables("rudn") EXCEPT !.thing_location = tl]
    /\ committed = session
    /\ ALLOWED_THING_IDS = {1, 2}
    /\ pc = "resolve"
    /\ todo = <<>>
    /\ st = [k |-> "cache", cleared |-> 0]
    /\ loc_cache = <<>>
    /\ skipped_counter = <<>>
    /\ cycles = 0
    /\ crashes = 0
    /\ calls = <<>>
    /\ ret = None
    /\ remote = None
    /\ fg = None
    /\ sched = None

CacheRest == <<remote, fg, sched, variant, upstream, session, committed,
               ALLOWED_THING_IDS, pc, todo, skipped_counter, crashes>>

\* loc_id = resolve_location_id(cur, thing_id, at_time, loc_cache)
CacheResolve ==
    /\ pc = "resolve" /\ cycles < MaxLookups
    /\ \E thing_id \in CacheThings, at_time \in 0..MaxT :
         LET r == resolve_location_id_rudn(session.thing_location, thing_id, at_time,
                                           loc_cache)
         IN /\ loc_cache' = r.cache
            /\ ret' = r.loc
            /\ calls' = <<[thing_id |-> thing_id, at_time |-> at_time]>>
            /\ st' = [st EXCEPT !.cleared =
                         IF Cardinality(DOMAIN loc_cache) > CACHE_LIMIT /\ @ < MaxLookups
                         THEN @ + 1 ELSE @]
    /\ cycles' = cycles + 1
    /\ UNCHANGED CacheRest

\* the next ingest function: loc_cache = {}
CacheNew ==
    /\ pc = "resolve" /\ cycles < MaxLookups /\ loc_cache # <<>>
    /\ loc_cache' = <<>>
    /\ cycles' = cycles + 1
    /\ UNCHANGED <<CacheRest, st, calls, ret>>

NextCache == CacheResolve \/ CacheNew

SpecCache == InitCache /\ [][NextCache]_vars

\* ---- C32 (SpecCache)
\* C32: the keys of the location cache are pairs (thing_id, hour); a call that
\* finds more than CACHE_LIMIT entries empties the cache before it stores its
\* own; the cache never holds more than CACHE_LIMIT + 1 entries.
C32_CacheBounded ==
    [][/\ Cardinality(DOMAIN loc_cache') <= CACHE_LIMIT + 1
       /\ \A k \in DOMAIN loc_cache' :
            k[1] \in CacheThings /\ k[2] = floor_hour(k[2])
       /\ calls' # calls \/ ret' # ret \/ loc_cache' # loc_cache =>
            \/ loc_cache' = <<>>
            \/ /\ calls' # <<>>
               /\ LET key == <<calls'[1].thing_id, floor_hour(calls'[1].at_time)>>
                  IN /\ key \in DOMAIN loc_cache'
                     /\ Cardinality(DOMAIN loc_cache) > CACHE_LIMIT =>
                          DOMAIN loc_cache' = {key}
                     /\ Cardinality(DOMAIN loc_cache) <= CACHE_LIMIT =>
                          DOMAIN loc_cache' = DOMAIN loc_cache \cup {key}]_vars

\* the cache has been cleared by a call and has grown to CACHE_LIMIT + 1
\* entries again
C32_Witness ==
    /\ pc = "resolve" /\ st.cleared >= 1
    /\ Cardinality(DOMAIN loc_cache) = CACHE_LIMIT + 1

\* ================================== equal phenomenonTimes (SpecTies)
\* The ingestion cycles of Spec against a stream of Datastream 1 that already
\* holds observations, two of which may carry the same phenomenonTime.
\* Thing 1 has been at Location 1 since tick 0.
TiedStreams ==
    {s \in UNION {[1..n -> 1..MaxT] : n \in (MaxObs - 1)..MaxObs} :
        \A i \in 1..(Len(s) - 1) : s[i] <= s[i + 1]}

InitTies ==
    /\ variant \in Variants
    /\ \E times \in TiedStreams :
         upstream = [s \in Sources |->
                        IF s = DsSrc(1)
                        THEN [i \in 1..Len(times) |->
                                 [ts |-> times[i], result |-> Result(s, times[i]),
                                  time_form |-> "iso", result_form |-> "number"]]
                        ELSE <<>>]
    /\ session = [Tables(variant) EXCEPT
                     !.thing_location = {[thing_id |-> 1, location_id |-> 1,
                                          start_time |-> T_MIN, end_time |-> T_MAX]}]
    /\ committed = session
    /\ ALLOWED_THING_IDS = {1, 2}
    /\ pc = "idle"
    /\ todo = <<>>
    /\ st = NoSt
    /\ loc_cache = <<>>
    /\ skipped_counter = <<>>
    /\ cycles = 0
    /\ crashes = 0
    /\ calls = <<>>
    /\ ret = None
    /\ remote = None
    /\ fg = None
    /\ sched = None

SpecTies == InitTies /\ [][Next]_vars

\* ---- C33 (SpecTies)
\* C33: in loader-rudn, after page requests of a datastream's observation
\* stream used up their retries in earlier cycles, the cycle that reads the
\* stream to its end leaves every observation of the stream merged exactly
\* once: those discarded from the buffer were fetched again, none was lost and
\* none was merged twice.  (Stated for Datastream 1, whose id is the id of no
\* virtual datastream.)
C33_DiscardedFetchedLater ==
    [][(variant = "rudn" /\ crashes = 0 /\ DsEndStep /\ st.ds_id = 1) =>
          \A i \in 1..Len(upstream[st.src]) : committed'.fed[<<st.src, i>>] = 1]_vars

\* ---- C34 (Spec)
\* the committed watermark of a datastream, START_FROM_DT without a row
CommittedWm(ds_id) == get_watermark(committed.ingestion_state, ds_id, START_FROM_DT)

\* C34: in the loader variant the committed tables always hold the merges of a
\* datastream together with the matching watermark: an observation is merged
\* in the committed fact rows exactly when the committed watermark of its
\* datastream has reached its phenomenonTime, and then it is merged once.
C34_RowsAndWatermarkTogether ==
    variant = "loader" =>
       \A src \in DsSources : \A i \in 1..Len(upstream[src]) :
          committed.fed[<<src, i>>] =
             IF upstream[src][i].ts <= CommittedWm(src[2]) THEN 1 ELSE 0

\* the process was killed once; now a batch of datastream 1 is merged in the
\* open transaction and neither the rows nor a watermark are committed
C34_Witness ==
    /\ variant = "loader" /\ crashes = 1 /\ pc = "ds" /\ st.k = "ds"
    /\ st.ds_id = 1
    /\ session.fed[<<DsSrc(1), 1>>] = 1
    /\ committed.fed[<<DsSrc(1), 1>>] = 0
    /\ 1 \notin DOMAIN committed.ingestion_state

\* ============================== the cache between catalog syncs (SpecMemo)
\* SpecHist for loader-rudn alone, the Thing served with a history log of
\* at most MaxLog - 2 events.
MemoRecords == {rec \in Records : Len(rec.hist) < MaxLog - 1}

SyncMemo == SyncRudnFrom(MemoRecords)

InitMemo == InitHist /\ variant = "rudn"

NextMemo == SyncMemo \/ ResolveRudn \/ IngestEnd

SpecMemo == InitMemo /\ [][NextMemo]_vars

\* ---- C35 (SpecMemo)
\* a step that is a call of resolve_location_id
ResolveStep == pc = "ingest" /\ pc' = "ingest" /\ st'.k = "resolve"

\* the answer of the SELECT of resolve_location_id without the cache
Uncached(tl, thing_id, at_time) ==
    LET rows == Containing(tl, thing_id, at_time)
    IN IF rows = {} THEN None ELSE Some(Limit1(rows).location_id)

\* C35: in loader-rudn every call of resolve_location_id, answered from the
\* cache or not, returns what the lookup in thing_location returns at that
\* moment; the time asked about is the hour of the cache key; every cached
\* answer is the answer of the table as it is, because thing_location changes
\* only while the cache is empty.
C35_CacheAgreesWithTable ==
    [][/\ (variant = "rudn" /\ ResolveStep) =>
            /\ st'.at_time = floor_hour(st'.at_time)
            /\ ret' = Uncached(session'.thing_location, st'.thing_id, st'.at_time)
            /\ Cardinality(Containing(session'.thing_location, st'.thing_id,
                                      st'.at_time)) <= 1
       /\ variant = "rudn" =>
            /\ \A k \in DOMAIN loc_cache' :
                 loc_cache'[k] = Uncached(session'.thing_location, k[1], k[2])
            /\ session'.thing_location # session.thing_location =>
                 loc_cache = <<>> /\ loc_cache' = <<>>]_vars

\* a call answered from the cache, after the catalog sync of the second cycle
\* changed the intervals of the Thing
C35_Witness ==
    /\ variant = "rudn" /\ pc = "ingest" /\ cycles = 1
    /\ st.k = "resolve" /\ st.hit
    /\ ret = Some(1)
    /\ session.thing_location # InitThingLocation
    /\ \E k \in DOMAIN loc_cache : loc_cache[k] = None

\* ---- C36 (SpecHist)
\* C36: when the catalog sync of a cycle of loader-rudn has run, the set
\* ALLOWED_THING_IDS holds the Things that passed the location filter in this
\* sync and no other: a Thing allowed by an earlier cycle that no longer
\* passes is not in it.
C36_AllowedFromThisCycle ==
    [][(variant = "rudn" /\ SyncStep) =>
          ALLOWED_THING_IDS' = {t \in {1} : remote'.allowed}]_vars

\* ---- C37 (Spec)
NativeIds == {NativeDs[i].id : i \in 1..Len(NativeDs)}

VirtualIds ==
    UNION {{VdsId(MultiDs[i].id, idx) : idx \in 0..(MultiDs[i].ncomp - 1)} :
           i \in 1..Len(MultiDs)}

\* the fact rows and the watermark of datastream d are what they were
SameRowsAndWatermark(d) ==
    /\ DsRows(session'.observation_hour, d) = DsRows(session.observation_hour, d)
    /\ get_watermark(session'.ingestion_state, d, START_FROM_DT)
         = get_watermark(session.ingestion_state, d, START_FROM_DT)

\* C37: the ids md_id * 100 + idx of the virtual datastreams differ from one
\* another and from every native datastream id, so a step that reads a
\* composite stream changes neither the fact rows nor the watermark of a
\* native datastream, and a step that reads a native datastream changes
\* neither those of a virtual datastream.
C37_VirtualIdsApart ==
    [][/\ \A i, j \in 1..Len(MultiDs) :
            \A a \in 0..(MultiDs[i].ncomp - 1), b \in 0..(MultiDs[j].ncomp - 1) :
               VdsId(MultiDs[i].id, a) = VdsId(MultiDs[j].id, b) => i = j /\ a = b
       /\ (variant = "rudn" /\ st.k = "md") =>
            \A d \in NativeIds : SameRowsAndWatermark(d)
       /\ (variant = "rudn" /\ st.k = "ds") =>
            \A d \in VirtualIds : SameRowsAndWatermark(d)]_vars

\* ======================================= the presentation layer (SpecDash)
\* app.py served by threads: one request for "/" (root_map) at a time, and
\* requests for /api/data/<key> and /dashboard/<key> between any two of its
\* statements.  committed is the sensor database: the dashboard keys with
\* aggregated data and their values; session is the process-wide dictionary
\* dashboard_data; pc is the position of root_map, todo the Things
\* load_data_from_db has still to store, calls the key of the last data request
\* and ret its answer; cycles counts the map renders that have ended and
\* st.last holds the keys the dictionary had when the last one ended.
MaxRenders == 2

DashKeys == {"DS__campus__a", "DS__campus__b", "DS__park__a"}

\* the hourly values the database holds for a key
DashValues(key) == IF key = "DS__park__a" THEN <<10, 20>> ELSE <<10>>

Databases ==
    {[k \in S |-> DashValues(k)] : S \in (SUBSET DashKeys) \ {{}}}

\* the keys of S in the order load_data_from_db stores them: by location,
\* then by Thing
KeyOrder(S) ==
    SelectSeq(<<"DS__campus__a", "DS__campus__b", "DS__park__a">>, LAMBDA k : k \in S)

InitDash ==
    /\ variant = "frontend"
    /\ upstream = <<>>
    /\ committed \in Databases
    /\ session = <<>>
    /\ ALLOWED_THING_IDS = {}
    /\ pc = "idle"
    /\ todo = <<>>
    /\ st = [k |-> "dash", last |-> {}]
    /\ loc_cache = <<>>
    /\ skipped_counter = <<>>
    /\ cycles = 0
    /\ crashes = 0
    /\ calls = <<>>
    /\ ret = None
    /\ remote = None
    /\ fg = None
    /\ sched = None

DashRest == <<variant, upstream, committed, ALLOWED_THING_IDS, loc_cache,
              skipped_counter, crashes, remote, fg, sched>>

\* root_map: dashboard_data.clear()
RenderClear ==
    /\ pc = "idle" /\ cycles < MaxRenders
    /\ session' = <<>>
    /\ pc' = "cleared"
    /\ UNCHANGED <<DashRest, st, todo, cycles, calls, ret>>

\* load_data_from_db: the queries for Things, Locations and Datastreams
RenderQuery ==
    /\ pc = "cleared"
    /\ todo' = KeyOrder(DOMAIN committed)
    /\ pc' = "loading"
    /\ UNCHANGED <<DashRest, st, session, cycles, calls, ret>>

\* load_data_from_db: the values of one Thing are read and stored under its key
RenderStore ==
    /\ pc = "loading" /\ todo # <<>>
    /\ LET full_key == Head(todo)
       IN session' = [k \in DOMAIN session \cup {full_key} |->
                         IF k = full_key
                         THEN [values |-> committed[full_key], title |-> full_key]
                         ELSE session[k]]
    /\ todo' = Tail(todo)
    /\ UNCHANGED <<DashRest, st, pc, cycles, calls, ret>>

\* load_data_from_db returns and root_map renders the map
RenderDone ==
    /\ pc = "loading" /\ todo = <<>>
    /\ pc' = "idle"
    /\ cycles' = cycles + 1
    /\ st' = [st EXCEPT !.last = DOMAIN session]
    /\ UNCHANGED <<DashRest, session, todo, calls, ret>>

\* a query of load_data_from_db raises: root_map logs it and renders an
\* empty map; the dictionary stays as far as it was filled
RenderFail ==
    /\ pc \in {"cleared", "loading"}
    /\ pc' = "idle"
    /\ todo' = <<>>
    /\ cycles' = cycles + 1
    /\ st' = [st EXCEPT !.last = DOMAIN session]
    /\ UNCHANGED <<DashRest, session, calls, ret>>

\* api_sensor_data / dashboard: sensor = get_sensor_data(sensor_key)
DataRequest ==
    /\ \E sensor_key \in DashKeys :
         /\ calls' = <<sensor_key>>
         /\ ret' = IF sensor_key \in DOMAIN session
                   THEN Some(session[sensor_key].values) ELSE None
    /\ UNCHANGED <<DashRest, st, session, pc, todo, cycles>>

NextDash ==
    RenderClear \/ RenderQuery \/ RenderStore \/ RenderDone \/ RenderFail \/ DataRequest

SpecDash == InitDash /\ [][NextDash]_vars

\* ---- C38 (SpecDash)
\* a step that answers a data request
DataStep == pc' = pc /\ session' = session /\ calls' # <<>>
            /\ (calls' # calls \/ ret' # ret)

\* C38: a data request made while a map render is in progress, for a key that
\* has aggregated data in the database and was in the dictionary when the
\* render before ended, is answered with all the values of the key: the key
\* is never missing and its values are never partial.
C38_DataNeverMissingDuringRender ==
    [][(DataStep /\ pc \in {"cleared", "loading"}
        /\ calls'[1] \in DOMAIN committed /\ calls'[1] \in st.last) =>
          ret' = Some(committed[calls'[1]])]_vars

====
